---- MODULE Spec2Model ----
(***************************************************************************)
(* PDF anonymizer of bp_ecg_etl (src/bp_ecg_etl/pdf_anonymizer.py with the  *)
(* rule configuration of src/bp_ecg_etl/config.py): the page-1 redaction   *)
(* engine and, around it, anonymize_pdf with its two strategies.           *)
(*                                                                         *)
(* Lengths are integers counting 1/16 of a PDF point, so that every        *)
(* coordinate of the model is a float the program represents exactly.     *)
(* A text is the tuple of its characters, so that strip(), endswith(":"),  *)
(* tok + ":" and '":" in text' are computed, not tabulated.                *)
(***************************************************************************)
EXTENDS Integers, Sequences, FiniteSets, TLC

VARIABLES
    n_pages,    \* len(doc): 1 selects anonymize_single_page_pdf, 2 anonymize_multi_page_pdf
    config,     \* which label configuration is loaded (config.py or a variant)
    words,      \* page1.get_text("words"): the words of page 1 in document order
    pc,         \* position in the page-1 pass
    lines,      \* the local `lines` of the function that ran last (words_by_line(page))
    crm_rects,  \* redact_crm_and_upper_name: its list of search hits
    candidates, \* redact_crm_and_upper_name: the candidates list of each hit, in order
    queue,      \* redaction annotations queued on page 1 (add_redact_annot), in order
    burned,     \* the rectangles apply_redactions has burned into page 1
    text,       \* the words left on page 1 (get_text after the pass)
    regions,    \* the region lists loaded: [page1 |-> ..., page2 |-> ...]
    bound,      \* page1.bound(): the bounding box of page 1
    calls,      \* the calls made on the PDF and image libraries so far, in order
    output_doc, \* anonymize_multi_page_pdf: the pages of output_doc, in order
    img,        \* anonymize_multi_page_pdf: the rendered page 2 and what was drawn on it
    metadata,   \* the kinds of metadata held by the document that will be saved
    warnings,   \* clear_pdf_metadata: the blocks whose exception was logged and dropped
    result,     \* what anonymize_pdf returned: <<>> or the one saved document
    error,      \* the exception anonymize_pdf raised, "" if none
    hpc,        \* position of the handler that runs (async_lambda_handler or run_batch)
    tasks,      \* the coroutines given to asyncio.gather, in order: position, locals, result
    permits,    \* the value of the asyncio.Semaphore
    event,      \* async_lambda_handler: the records of the S3 event
    pdf_files,  \* async_lambda_handler: parse_s3_event(event)
    store,      \* the objects put into OUTPUT_BUCKET by upload_pdf, in order
    ulids,      \* generate_output_key: how many ULIDs have been drawn
    response,   \* async_lambda_handler: <<>> or the one response returned
    listing,    \* run_batch: the keys under PDF_PREFIX in SOURCE_BUCKET, in listing order
    settings,   \* run_batch: what get_settings() reads from the environment
    run,        \* run_batch: its arguments start_after and batch_id
    pdf_keys,   \* run_batch: the keys of this batch
    pending,    \* Lambda invocations made by _invoke_next_batch and not yet started
    handed,     \* the keys given to process_single_pdf so far, with their batch_id
    returns     \* what each run_batch so far returned (or that it raised), in order

pdf_vars == <<regions, bound, output_doc, img, metadata, warnings, result, error>>

\* the state of one anonymize_pdf call
doc_vars == <<n_pages, config, words, pc, lines, crm_rects, candidates, queue, burned, text,
              regions, bound, calls, output_doc, img, metadata, warnings, result, error>>

\* the state of the handlers around it
svc_vars == <<hpc, tasks, permits, event, pdf_files, store, ulids, response,
              listing, settings, run, pdf_keys, pending, handed, returns>>

vars == <<n_pages, config, words, pc, lines, crm_rects, candidates, queue, burned, text,
          regions, bound, calls, output_doc, img, metadata, warnings, result, error,
          hpc, tasks, permits, event, pdf_files, store, ulids, response,
          listing, settings, run, pdf_keys, pending, handed, returns>>

----------------------------------------------------------------------------
(* Units and configuration values *)

Unit == 4 * 4                      \* model units per PDF point

LINE_TOLERANCE == 1 * Unit         \* config.py: LINE_TOLERANCE = 1.0
PREVLINE_TOLERANCE == 10 * Unit    \* config.py: PREVLINE_TOLERANCE = 10.0
PADDING == 1 * Unit                \* config.py: PADDING = 1.0
HMargin == 50 * Unit               \* the literal 50 of the horizontal test

----------------------------------------------------------------------------
(* Texts *)

Whitespace == {" ", "\t", "\n"}

RECURSIVE LStrip(_)
LStrip(t) ==
    IF t = <<>> THEN <<>>
    ELSE IF Head(t) \in Whitespace THEN LStrip(Tail(t)) ELSE t

RECURSIVE RStrip(_)
RStrip(t) ==
    IF t = <<>> THEN <<>>
    ELSE IF t[Len(t)] \in Whitespace THEN RStrip(SubSeq(t, 1, Len(t) - 1)) ELSE t

\* str.strip()
Strip(t) == RStrip(LStrip(t))

\* str.endswith(":")
EndsWithColon(t) == Len(t) > 0 /\ t[Len(t)] = ":"

\* ":" in text
HasColon(t) == \E k \in 1..Len(t) : t[k] = ":"

\* tok if tok.endswith(":") else (tok + ":")
TokNorm(tok) == IF EndsWithColon(tok) THEN tok ELSE Append(tok, ":")

\* " ".join(ts)
RECURSIVE JoinSpace(_)
JoinSpace(ts) ==
    IF ts = <<>> THEN <<>>
    ELSE IF Len(ts) = 1 THEN ts[1]
    ELSE ts[1] \o <<" ">> \o JoinSpace(Tail(ts))

----------------------------------------------------------------------------
(* Geometry *)

Rect(a, b, c, d) == [x0 |-> a, y0 |-> b, x1 |-> c, y1 |-> d]

WordBox(w) == Rect(w.x0, w.y0, w.x1, w.y1)

\* two boxes share interior points: what apply_redactions removes
Intersects(r, s) == r.x0 < s.x1 /\ s.x0 < r.x1 /\ r.y0 < s.y1 /\ s.y0 < r.y1

SetMin(S) == CHOOSE m \in S : \A o \in S : m <= o
SetMax(S) == CHOOSE m \in S : \A o \in S : m >= o

----------------------------------------------------------------------------
(* LineGrouper: words_by_line *)

\* round(y, 1) of a multiple of 1/16, in tenths; Python rounds the two exact
\* halves (.25 and .75) to the even tenth
RoundTable == <<0, 1, 1, 2, 2, 3, 4, 4, 5, 6, 6, 7, 8, 8, 9, 9>>
Round1(y) == (y \div Unit) * 10 + RoundTable[(y % Unit) + 1]

\* the sort key (round(w[1], 1), w[0]) and its tuple order
SortKey(w) == <<Round1(w.y0), w.x0>>
KeyLess(a, b) == a[1] < b[1] \/ (a[1] = b[1] /\ a[2] < b[2])

\* list.sort is stable: a word goes after every word whose key is not greater
RECURSIVE InsertSorted(_, _)
InsertSorted(sorted, w) ==
    IF sorted = <<>> THEN <<w>>
    ELSE IF KeyLess(SortKey(w), SortKey(Head(sorted)))
         THEN <<w>> \o sorted
         ELSE <<Head(sorted)>> \o InsertSorted(Tail(sorted), w)

RECURSIVE StableSort(_)
StableSort(ws) ==
    IF ws = <<>> THEN <<>>
    ELSE InsertSorted(StableSort(SubSeq(ws, 1, Len(ws) - 1)), ws[Len(ws)])

\* the filter without strip(): only the empty text is dropped
IsNonBlankNoStrip(w) == w.text # <<>>

\* [w for w in words if w[4].strip()]
IsNonBlank(w) == Strip(w.text) # <<>>
NonBlank(ws) == SelectSeq(ws, IsNonBlank)

\* prev_y is None (<<>>) or the exact dyadic rational num/den
NoPrev == <<>>

\* a test that leaves out the difference equal to the tolerance
JoinsLineStrict(prev, y0) ==
    \/ prev = NoPrev
    \/ LET diff == y0 * prev.den - prev.num
           absd == IF diff < 0 THEN -diff ELSE diff
       IN  absd < LINE_TOLERANCE * prev.den

\* if prev_y is None or abs(y0 - prev_y) <= LINE_TOLERANCE
JoinsLine(prev, y0) ==
    \/ prev = NoPrev
    \/ LET diff == y0 * prev.den - prev.num
           absd == IF diff < 0 THEN -diff ELSE diff
       IN  absd <= LINE_TOLERANCE * prev.den

\* prev_y = y0 if prev_y is None else (prev_y + y0) / 2.0
NextPrev(prev, y0) ==
    IF prev = NoPrev THEN [num |-> y0, den |-> 1]
    ELSE [num |-> prev.num + y0 * prev.den, den |-> 2 * prev.den]

\* the for loop of words_by_line over the sorted words, from position i
RECURSIVE GroupLoop(_, _, _, _, _)
GroupLoop(ws, i, acc, current, prev) ==
    IF i > Len(ws)
    THEN IF current # <<>> THEN Append(acc, current) ELSE acc
    ELSE LET w == ws[i] IN
         IF JoinsLine(prev, w.y0)
         THEN GroupLoop(ws, i + 1, acc, Append(current, w), NextPrev(prev, w.y0))
         ELSE GroupLoop(ws, i + 1,
                        IF current # <<>> THEN Append(acc, current) ELSE acc,
                        <<w>>, [num |-> w.y0, den |-> 1])

words_by_line(ws) == GroupLoop(StableSort(NonBlank(ws)), 1, <<>>, <<>>, NoPrev)

----------------------------------------------------------------------------
(* Python indexing: lists are 0-based, a slice [s:e] excludes e *)

At(seq, i) == seq[i + 1]
Slice(seq, s, e) ==
    LET hi == IF e > Len(seq) THEN Len(seq) ELSE e
    IN  IF hi <= s THEN <<>> ELSE [k \in 1..(hi - s) |-> seq[s + k]]

\* texts = [w[4] for w in line]
TextsOf(line) == [k \in 1..Len(line) |-> line[k].text]

RECURSIVE Flatten(_)
Flatten(ss) == IF ss = <<>> THEN <<>> ELSE Head(ss) \o Flatten(Tail(ss))

----------------------------------------------------------------------------
(* rect_of_words: the PADDING-inflated bounding box of words_line[s:e] *)

\* min() of an empty list raises; the exception stands where a rectangle would
ValueError == [raised |-> "ValueError"]

\* the bounding box without the PADDING margin
rect_of_words_NoPad(words_line, start_idx, end_idx) ==
    LET sl == Slice(words_line, start_idx, end_idx)
        ix == 1..Len(sl)
    IN  IF sl = <<>> THEN ValueError
        ELSE Rect(SetMin({sl[k].x0 : k \in ix}), SetMin({sl[k].y0 : k \in ix}),
                  SetMax({sl[k].x1 : k \in ix}), SetMax({sl[k].y1 : k \in ix}))

rect_of_words(words_line, start_idx, end_idx) ==
    LET sl == Slice(words_line, start_idx, end_idx)
        ix == 1..Len(sl)
    IN  IF sl = <<>> THEN ValueError
        ELSE Rect(SetMin({sl[k].x0 : k \in ix}) - PADDING,
                  SetMin({sl[k].y0 : k \in ix}) - PADDING,
                  SetMax({sl[k].x1 : k \in ix}) + PADDING,
                  SetMax({sl[k].y1 : k \in ix}) + PADDING)

----------------------------------------------------------------------------
(* LabelMatcher: redact_line_values_after_label and its inlined copy *)

\* "Look for next label": for j in range(start_idx, len(texts)) ... break
RECURSIVE NextLabelIdx(_, _, _, _)
NextLabelIdx(texts, j, labels_set, keep_labels) ==
    IF j >= Len(texts) THEN Len(texts)
    ELSE LET t_norm == TokNorm(At(texts, j)) IN
         IF t_norm \in labels_set \/ t_norm \in keep_labels
         THEN j
         ELSE NextLabelIdx(texts, j + 1, labels_set, keep_labels)

\* a trigger test that also accepts the first word of a label of several words
StartsSpanFirstWord(tok, labels_set, keep_labels) ==
    /\ \E l \in labels_set :
          \/ TokNorm(tok) = l
          \/ Len(l) > Len(tok) /\ SubSeq(l, 1, Len(tok)) = tok /\ l[Len(tok) + 1] = " "
    /\ TokNorm(tok) \notin keep_labels

\* the membership tests on the raw token, without the colon normalization
StartsSpanRaw(tok, labels_set, keep_labels) ==
    tok \in labels_set /\ tok \notin keep_labels

\* the trigger test without the keep-label exclusion
StartsSpanNoKeep(tok, labels_set, keep_labels) == TokNorm(tok) \in labels_set

\* tok_norm in labels_set and tok_norm not in KEEP_LABELS
StartsSpan(tok, labels_set, keep_labels) ==
    TokNorm(tok) \in labels_set /\ TokNorm(tok) \notin keep_labels

\* the loop without its two guards against an empty span
RECURSIVE LineLabelRectsNoGuard(_, _, _, _)
LineLabelRectsNoGuard(line, i, labels_set, keep_labels) ==
    IF i >= Len(line) THEN <<>>
    ELSE LET texts == TextsOf(line)
             rest == LineLabelRectsNoGuard(line, i + 1, labels_set, keep_labels)
             start_idx == i + 1
             end_idx == NextLabelIdx(texts, start_idx, labels_set, keep_labels)
         IN  IF StartsSpan(At(texts, i), labels_set, keep_labels)
             THEN <<rect_of_words(line, start_idx, end_idx)>> \o rest
             ELSE rest

\* for i, tok in enumerate(texts): the rectangles queued for one line, from i
RECURSIVE LineLabelRects(_, _, _, _)
LineLabelRects(line, i, labels_set, keep_labels) ==
    IF i >= Len(line) THEN <<>>
    ELSE LET texts == TextsOf(line)
             rest == LineLabelRects(line, i + 1, labels_set, keep_labels)
             start_idx == i + 1
             end_idx == NextLabelIdx(texts, start_idx, labels_set, keep_labels)
         IN  IF StartsSpan(At(texts, i), labels_set, keep_labels)
             THEN IF start_idx >= Len(line) THEN rest
                  ELSE IF end_idx > start_idx
                       THEN <<rect_of_words(line, start_idx, end_idx)>> \o rest
                       ELSE rest
             ELSE rest

\* for line_num, line in enumerate(lines)
LabelRects(lns, labels_set, keep_labels) ==
    Flatten([k \in 1..Len(lns) |-> LineLabelRects(lns[k], 0, labels_set, keep_labels)])

\* redact_line_values_after_label(page, labels_set): the rectangles it queues
redact_line_values_after_label(ws, labels_set, keep_labels) ==
    LabelRects(words_by_line(ws), labels_set, keep_labels)

\* an inlined copy that does not filter out the keep labels
single_page_label_loop_NoKeep(ws, labels_set, keep_labels) ==
    LabelRects(words_by_line(ws), labels_set, {})

\* the copy of the same loop inlined in anonymize_single_page_pdf
single_page_label_loop(ws, labels_set, keep_labels) ==
    LabelRects(words_by_line(ws), labels_set, keep_labels)

----------------------------------------------------------------------------
(* SignatureHeuristic: redact_crm_and_upper_name *)

CRM_TOKENS == << <<"C", "R", "M">>, <<"C", "R", "M", ":">>, <<"c", "r", "m">> >>
CrmTokenSet == {CRM_TOKENS[k] : k \in 1..Len(CRM_TOKENS)}

\* Part A with the colon normalization of the label loop
IsCrmTokenNorm(tok) == TokNorm(Strip(tok)) \in CrmTokenSet

\* Part A, one line: if tok.strip() in CRM_TOKENS: rect_of_words(line, i, len(line))
IsCrmToken(tok) == Strip(tok) \in CrmTokenSet

RECURSIVE LineCrmRects(_, _)
LineCrmRects(line, i) ==
    IF i >= Len(line) THEN <<>>
    ELSE IF IsCrmToken(At(TextsOf(line), i))
         THEN <<rect_of_words(line, i, Len(line))>> \o LineCrmRects(line, i + 1)
         ELSE LineCrmRects(line, i + 1)

CrmTokenRects(lns) == Flatten([k \in 1..Len(lns) |-> LineCrmRects(lns[k], 0)])

\* page.search_for(label, quads=False): the text search of the PDF library
\* ignores case and finds the needle inside words; a hit is the box of the
\* matched characters (characters of a word taken as equally wide)
Lower(c) ==
    CASE c = "C" -> "c" [] c = "R" -> "r" [] c = "M" -> "m"
      [] c = "N" -> "n" [] c = "S" -> "s" [] c = "A" -> "a" [] OTHER -> c
LowerText(t) == [k \in 1..Len(t) |-> Lower(t[k])]

MatchesAt(t, k, needle) ==
    /\ k + Len(needle) - 1 <= Len(t)
    /\ LowerText(SubSeq(t, k, k + Len(needle) - 1)) = LowerText(needle)

HitRect(w, k, needle) ==
    LET cw == (w.x1 - w.x0) \div Len(w.text)
    IN  Rect(w.x0 + (k - 1) * cw, w.y0, w.x0 + (k - 1 + Len(needle)) * cw, w.y1)

RECURSIVE WordHits(_, _, _)
WordHits(w, k, needle) ==
    IF k > Len(w.text) THEN <<>>
    ELSE IF MatchesAt(w.text, k, needle)
         THEN <<HitRect(w, k, needle)>> \o WordHits(w, k + 1, needle)
         ELSE WordHits(w, k + 1, needle)

search_for(ws, needle) == Flatten([k \in 1..Len(ws) |-> WordHits(ws[k], 1, needle)])

\* crm_rects: for label in CRM_TOKENS: for r in page.search_for(label)
CrmRects(ws) == Flatten([k \in 1..Len(CRM_TOKENS) |-> search_for(ws, CRM_TOKENS[k])])

\* line_rects: (rect_of_words(line, 0, len(line)), line) for every line
LineRects(lns) ==
    [k \in 1..Len(lns) |-> [rect |-> rect_of_words(lns[k], 0, Len(lns[k])), line |-> lns[k]]]

\* the candidacy test on the box of the words, without its margin
IsCandidateUnpadded(rect, crm_r) ==
    /\ rect.y1 - PADDING <= crm_r.y0 /\ (crm_r.y0 - (rect.y1 - PADDING)) <= PREVLINE_TOLERANCE
    /\ (rect.x1 > crm_r.x0 - HMargin) /\ (rect.x0 < crm_r.x1 + HMargin)

\* the candidacy test with a strict gap bound
IsCandidateStrict(rect, crm_r) ==
    /\ rect.y1 <= crm_r.y0 /\ (crm_r.y0 - rect.y1) < PREVLINE_TOLERANCE
    /\ (rect.x1 > crm_r.x0 - HMargin) /\ (rect.x0 < crm_r.x1 + HMargin)

\* the two conditions under which (rect, line) is appended to candidates
IsCandidate(rect, crm_r) ==
    /\ rect.y1 <= crm_r.y0 /\ (crm_r.y0 - rect.y1) <= PREVLINE_TOLERANCE
    /\ (rect.x1 > crm_r.x0 - HMargin) /\ (rect.x0 < crm_r.x1 + HMargin)

Candidates(lrs, crm_r) ==
    LET keepIt(lr) == IsCandidate(lr.rect, crm_r)
        sel == SelectSeq(lrs, keepIt)
    IN  [k \in 1..Len(sel) |->
            [gap |-> crm_r.y0 - sel[k].rect.y1, rect |-> sel[k].rect, line |-> sel[k].line]]

\* candidates.sort(key=lambda t: t[0]); candidates[0]: the sort is stable, so
\* the first candidate of least gap
Closest(cands) ==
    cands[CHOOSE k \in 1..Len(cands) :
            /\ \A m \in 1..Len(cands) : cands[k].gap <= cands[m].gap
            /\ \A m \in 1..(k - 1) : cands[m].gap > cands[k].gap]

\* the candidates list of every hit; none is built when there is no hit
CandidateLists(ws, lns) ==
    LET hits == CrmRects(ws)
    IN  [k \in 1..Len(hits) |-> Candidates(LineRects(lns), hits[k])]

\* Part B falling back to the closest candidate without a colon
SignatureRectsFallback(lrs, crm_r) ==
    LET isFree(c) == ~HasColon(JoinSpace(TextsOf(c.line)))
        free == SelectSeq(Candidates(lrs, crm_r), isFree)
    IN  IF free = <<>> THEN <<>> ELSE <<Closest(free).rect>>

\* what one occurrence rectangle queues in Part B
SignatureRects(lrs, crm_r) ==
    LET cands == Candidates(lrs, crm_r) IN
    IF cands = <<>> THEN <<>>
    ELSE LET c == Closest(cands)
             line_text == JoinSpace(TextsOf(c.line))
         IN  IF ~HasColon(line_text) THEN <<c.rect>> ELSE <<>>

UpperNameRects(ws, lns) ==
    LET hits == CrmRects(ws) IN
    IF hits = <<>> THEN <<>>
    ELSE Flatten([k \in 1..Len(hits) |-> SignatureRects(LineRects(lns), hits[k])])

\* redact_crm_and_upper_name(page): the rectangles it queues, Part A then Part B
redact_crm_and_upper_name(ws) ==
    LET lns == words_by_line(ws) IN CrmTokenRects(lns) \o UpperNameRects(ws, lns)

----------------------------------------------------------------------------
(* RegionRedactor: clamp01 and to_abs_rect; region values in thousandths *)

PerMille == 1000 * 1

clamp01(v) == IF v < 0 THEN 0 ELSE IF v > PerMille THEN PerMille ELSE v

\* page.bound() of page 1: 600 x 800 points
PageBound == Rect(0, 0, 600 * Unit, 800 * Unit)

\* the mapping without the swap of reversed values
to_abs_rect_NoSwap(b, rel_rect) ==
    LET c == [k \in 1..4 |-> clamp01(rel_rect[k])]
        width == b.x1 - b.x0
        height == b.y1 - b.y0
    IN  Rect(b.x0 + (width * c[1]) \div PerMille, b.y0 + (height * c[2]) \div PerMille,
             b.x0 + (width * c[3]) \div PerMille, b.y0 + (height * c[4]) \div PerMille)

to_abs_rect(b, rel_rect) ==
    LET c == [k \in 1..4 |-> clamp01(rel_rect[k])]
        x0r == IF c[3] < c[1] THEN c[3] ELSE c[1]
        x1r == IF c[3] < c[1] THEN c[1] ELSE c[3]
        y0r == IF c[4] < c[2] THEN c[4] ELSE c[2]
        y1r == IF c[4] < c[2] THEN c[2] ELSE c[4]
        width == b.x1 - b.x0
        height == b.y1 - b.y0
    IN  Rect(b.x0 + (width * x0r) \div PerMille, b.y0 + (height * y0r) \div PerMille,
             b.x0 + (width * x1r) \div PerMille, b.y0 + (height * y1r) \div PerMille)

PAGE1_REDACT_COORDS ==
    << <<350, 900, 650, 950>>,
       <<50000, 50000, 200000, 80000>>,
       <<300000, 100000, 500000, 130000>> >>

PAGE2_REDACT_COORDS ==
    << <<20, 100, 120, 170>>,
       <<130, 100, 180, 135>>,
       <<400, 940, 980, 970>>,
       <<880, 850, 960, 920>>,
       <<100000, 200000, 400000, 250000>>,
       <<50000, 300000, 300000, 350000>> >>

\* the region lists loaded: those of config.py, or two empty lists
RegionsSource == [page1 |-> PAGE1_REDACT_COORDS, page2 |-> PAGE2_REDACT_COORDS]
RegionsNone == [page1 |-> <<>>, page2 |-> <<>>]
page1_coords == regions.page1
page2_coords == regions.page2

\* a region loop that takes an empty list for the whole page
RegionRectsOrPage ==
    IF page1_coords = <<>> THEN <<bound>>
    ELSE [k \in 1..Len(page1_coords) |-> to_abs_rect(bound, page1_coords[k])]

RegionRects == [k \in 1..Len(page1_coords) |-> to_abs_rect(bound, page1_coords[k])]

----------------------------------------------------------------------------
(* apply_redactions: a word is removed when a queued rectangle reaches into it *)

IsRedacted(w, rects) == \E k \in 1..Len(rects) : Intersects(rects[k], WordBox(w))

apply_redactions(ws, rects) ==
    LET stays(w) == ~IsRedacted(w, rects) IN SelectSeq(ws, stays)

----------------------------------------------------------------------------
(* Configuration: the label lists of config.py and two further label sets *)

LABELS_SAME_LINE ==
    { <<"N","o","m","e",":">>, <<"C","P","F",":">>, <<"R","G",":">>,
      <<"R","e","g","."," ","C","l","í","n","i","c","o",":">>,
      <<"R","e","g","i","s","t","r","o"," ","C","l","í","n","i","c","o",":">>,
      <<"C","o","n","v","ê","n","i","o",":">>, <<"C","o","n","v","e","n","i","o",":">>,
      <<"R","e","s","p","o","n","s","á","v","e","l",":">>,
      <<"R","e","s","p","o","n","s","a","v","e","l",":">>,
      <<"S","o","l","i","c","i","t","a","n","t","e",":">>,
      <<"M","é","d","i","c","o"," ","R","e","s","p","o","n","s","á","v","e","l",":">>,
      <<"M","e","d","i","c","o"," ","R","e","s","p","o","n","s","a","v","e","l",":">>,
      <<"I","d","a","d","e",":">>, <<"C","R","M",":">>, <<"M","é","d","i","c","o",":">> }

KEEP_LABELS ==
    { <<"S","e","x","o",":">>, <<"D","a","t","a",":">>, <<"H","o","r","a",":">>,
      <<"D","a","t","a"," ","d","e"," ","N","a","s","c","i","m","e","n","t","o",":">>,
      <<"F","r","e","q","u","ê","n","c","i","a"," ","c","a","r","d","í","a","c","a",":">>,
      <<"I","n","t","e","r","v","a","l","o"," ","P","R",":">>,
      <<"D","u","r","a","ç","ã","o"," ","Q","R","S",":">>,
      <<"I","n","t","e","r","v","a","l","o"," ","Q","T","/","Q","T","c",":">>,
      <<"E","i","x","o"," ","P","-","Q","R","S","-","T",":">>,
      <<"I","n","t","e","r","p","r","e","t","a","ç","ã","o",":">> }

tNome == <<"N","o","m","e",":">>
tNomeBare == <<"N","o","m","e">>
tCPF == <<"C","P","F",":">>
tSexo == <<"S","e","x","o",":">>
tSexoBare == <<"S","e","x","o">>
tAna == <<"A","n","a">>
tSilva == <<"S","i","l","v","a">>
t123 == <<"1","2","3">>
tMasculino == <<"M","a","s","c","u","l","i","n","o">>
tCRM == <<"C","R","M">>
tCRMColon == <<"C","R","M",":">>
tcrm == <<"c","r","m">>
tObs == <<"O","b","s",":">>
tBlank == <<" ">>
tA == <<"A">>
tB == <<"B">>

\* the configuration of config.py
CfgSource == "source"
\* the label sets of the end-to-end scenario: two triggers, no keep label
CfgScenario == "scenario"
\* a label in both roles
CfgConflict == "conflict"

\* the trigger labels and the keep labels of the loaded configuration
labels ==
    CASE config = CfgSource -> LABELS_SAME_LINE
      [] config = CfgScenario -> {tNome, tCPF}
      [] config = CfgConflict -> {tNome, tSexo}
keep ==
    CASE config = CfgSource -> KEEP_LABELS
      [] config = CfgScenario -> {}
      [] config = CfgConflict -> {tSexo}

----------------------------------------------------------------------------
(* Pages: the words the extraction can return *)

CharW == 5 * Unit       \* width of a character of a word
Height == 10 * Unit     \* height of a word

Word(x, y, t) == [x0 |-> x, y0 |-> y, x1 |-> x + Len(t) * CharW, y1 |-> y + Height, text |-> t]

\* sequences over S of length at most n
SeqsUpTo(S, n) == UNION {[1..k -> S] : k \in 0..n}

\* the words of U (a tuple) at the positions in P, in the order of U
RECURSIVE Pick(_, _, _)
Pick(U, P, k) ==
    IF k > Len(U) THEN <<>>
    ELSE IF k \in P THEN <<U[k]>> \o Pick(U, P, k + 1) ELSE Pick(U, P, k + 1)

SubPages(U, n) == {Pick(U, P, 1) : P \in {Q \in SUBSET (1..Len(U)) : Cardinality(Q) <= n}}

IsInjective(f) == \A a, b \in DOMAIN f : f[a] = f[b] => a = b

\* no image: page 2 has not been rendered
NoImage == [width |-> 0, height |-> 0, drawn |-> <<>>]

\* the kinds of metadata clear_pdf_metadata deals with, one per try block:
\* the standard fields, the XMP stream, the Info entry of the catalog
AllMetadata == {"standard", "xmp", "extended"}

\* n times the call name c
Times(n, c) == [k \in 1..n |-> c]

\* no handler runs: anonymize_pdf is looked at on its own
NoHandler ==
    /\ hpc = "none"
    /\ tasks = <<>>
    /\ permits = 0
    /\ event = <<>>
    /\ pdf_files = <<>>
    /\ store = <<>>
    /\ ulids = 0
    /\ response = <<>>
    /\ listing = <<>>
    /\ settings = <<>>
    /\ run = <<>>
    /\ pdf_keys = <<>>
    /\ pending = <<>>
    /\ handed = <<>>
    /\ returns = <<>>

\* the state in which a strategy starts on page 1: fitz.open has returned a
\* document of np >= 1 pages whose first page holds the words ws
Start(cfg, np, ws) ==
    /\ n_pages = np
    /\ config = cfg
    /\ words = ws
    /\ pc = "text"
    /\ lines = <<>>
    /\ crm_rects = <<>>
    /\ candidates = <<>>
    /\ queue = <<>>
    /\ burned = <<>>
    /\ text = ws
    /\ regions = RegionsSource
    /\ bound = PageBound
    /\ calls = <<"open">>
    /\ output_doc = <<>>
    /\ img = NoImage
    /\ metadata = AllMetadata
    /\ warnings = {}
    /\ result = <<>>
    /\ error = ""
    /\ NoHandler

----------------------------------------------------------------------------
(* The page-1 pass *)

\* anonymize_multi_page_pdf -> anonymize_text_on_page1: labels_set is
\* set(LABELS_SAME_LINE + KEEP_LABELS); redact_line_values_after_label
AnonymizeTextOnPage1 ==
    /\ pc = "text" /\ n_pages >= 2
    /\ lines' = words_by_line(words)
    /\ queue' = queue \o redact_line_values_after_label(words, labels \cup keep, keep)
    /\ calls' = calls \o <<"get_text">>
                  \o Times(Len(redact_line_values_after_label(words, labels \cup keep, keep)),
                           "add_redact_annot")
    /\ pc' = "crm"
    /\ UNCHANGED <<n_pages, config, words, crm_rects, candidates, burned, text>>
    /\ UNCHANGED svc_vars
    /\ UNCHANGED pdf_vars

\* anonymize_single_page_pdf: lines = words_by_line(page1) and the inlined loop
SinglePageLabels ==
    /\ pc = "text" /\ n_pages = 1
    /\ lines' = words_by_line(words)
    /\ queue' = queue \o single_page_label_loop(words, labels \cup keep, keep)
    /\ calls' = calls \o <<"get_text">>
                  \o Times(Len(single_page_label_loop(words, labels \cup keep, keep)),
                           "add_redact_annot")
    /\ pc' = "crm"
    /\ UNCHANGED <<n_pages, config, words, crm_rects, candidates, burned, text>>
    /\ UNCHANGED svc_vars
    /\ UNCHANGED pdf_vars

\* redact_crm_and_upper_name(page1), called by both strategies
RedactCrmAndUpperName ==
    /\ pc = "crm"
    /\ lines' = words_by_line(words)
    /\ crm_rects' = CrmRects(words)
    /\ candidates' = CandidateLists(words, words_by_line(words))
    /\ queue' = queue \o redact_crm_and_upper_name(words)
    /\ calls' = calls \o <<"get_text">>
                  \o Times(Len(CrmTokenRects(words_by_line(words))), "add_redact_annot")
                  \o Times(Len(CRM_TOKENS), "search_for")
                  \o Times(Len(UpperNameRects(words, words_by_line(words))), "add_redact_annot")
    /\ pc' = "coords"
    /\ UNCHANGED <<n_pages, config, words, burned, text>>
    /\ UNCHANGED svc_vars
    /\ UNCHANGED pdf_vars

\* for coords in PAGE1_REDACT_COORDS: page1.add_redact_annot(to_abs_rect(page1, coords))
\* (the same loop in both strategies)
RegionRedact ==
    /\ pc = "coords"
    /\ queue' = queue \o RegionRects
    /\ calls' = calls \o Times(Len(RegionRects), "add_redact_annot")
    /\ pc' = "apply"
    /\ UNCHANGED <<n_pages, config, words, lines, crm_rects, candidates, burned, text>>
    /\ UNCHANGED svc_vars
    /\ UNCHANGED pdf_vars

\* page1.apply_redactions()
ApplyRedactions ==
    /\ pc = "apply"
    /\ burned' = queue
    /\ text' = apply_redactions(words, queue)
    /\ queue' = <<>>
    /\ calls' = Append(calls, "apply_redactions")
    /\ pc' = "done"
    /\ UNCHANGED <<n_pages, config, words, lines, crm_rects, candidates>>
    /\ UNCHANGED svc_vars
    /\ UNCHANGED pdf_vars

\* the page-1 pass alone, from the first call on page 1 to the burn-in
Next ==
    \/ AnonymizeTextOnPage1
    \/ SinglePageLabels
    \/ RedactCrmAndUpperName
    \/ RegionRedact
    \/ ApplyRedactions

----------------------------------------------------------------------------
(* anonymize_pdf and the rest of its two strategies *)

\* raise ValueError("PDF must have at least 1 page")
EmptyDocument == "ValueError: PDF must have at least 1 page"

\* a dispatch without the test for an empty document
AnonymizePdfNoCheck ==
    /\ pc = "open"
    /\ calls' = <<"open">>
    /\ pc' = "text"
    /\ error' = ""
    /\ UNCHANGED <<n_pages, config, words, lines, crm_rects, candidates, queue, burned, text>>
    /\ UNCHANGED svc_vars
    /\ UNCHANGED <<regions, bound, output_doc, img, metadata, warnings, result>>

\* anonymize_pdf up to the dispatch: page_count = len(doc); a document
\* without pages is closed and refused, any other goes to a strategy, which
\* starts on page 1 (page_count is never negative, the last else is dead)
AnonymizePdf ==
    /\ pc = "open"
    /\ calls' = IF n_pages = 0 THEN <<"open", "close">> ELSE <<"open">>
    /\ pc' = IF n_pages = 0 THEN "failed" ELSE "text"
    /\ error' = IF n_pages = 0 THEN EmptyDocument ELSE ""
    /\ UNCHANGED <<n_pages, config, words, lines, crm_rects, candidates, queue, burned, text>>
    /\ UNCHANGED svc_vars
    /\ UNCHANGED <<regions, bound, output_doc, img, metadata, warnings, result>>

\* a page of a document: where it comes from and what it holds
Page(kind, from, ws, image) == [kind |-> kind, from |-> from, text |-> ws, img |-> image]

\* a copy of page 1 as it was before the burn-in
CopyPage1Unburned ==
    /\ pc = "done" /\ n_pages >= 2
    /\ output_doc' = <<Page("copy", 0, words, NoImage)>>
    /\ metadata' = {}
    /\ calls' = Append(calls, "insert_pdf")
    /\ pc' = "render"
    /\ UNCHANGED <<n_pages, config, words, lines, crm_rects, candidates, queue, burned, text>>
    /\ UNCHANGED svc_vars
    /\ UNCHANGED <<regions, bound, img, warnings, result, error>>

\* output_doc = fitz.open(); output_doc.insert_pdf(doc, from_page=0, to_page=0):
\* a new document, without metadata, receives a copy of page 1 as it is now
CopyPage1 ==
    /\ pc = "done" /\ n_pages >= 2
    /\ output_doc' = <<Page("copy", 0, text, NoImage)>>
    /\ metadata' = {}
    /\ calls' = Append(calls, "insert_pdf")
    /\ pc' = "render"
    /\ UNCHANGED <<n_pages, config, words, lines, crm_rects, candidates, queue, burned, text>>
    /\ UNCHANGED svc_vars
    /\ UNCHANGED <<regions, bound, img, warnings, result, error>>

DPI_PAGE2_RENDER == 220
PointsPerInch == 72 * 1

\* the sizes page 2 may have, in points
Page2Sizes == {<<72, 144>>, <<595, 842>>}

CeilDiv(a, b) == (a + b - 1) \div b

\* render_page_to_image(page, dpi): zoom = dpi / 72; the pixmap covers the
\* zoomed page, its pixel counts rounded up
render_page_to_image(size, dpi) ==
    [width |-> CeilDiv(size[1] * dpi, PointsPerInch),
     height |-> CeilDiv(size[2] * dpi, PointsPerInch),
     drawn |-> <<>>]

\* page2 = doc[1]; img = render_page_to_image(page2, DPI_PAGE2_RENDER)
RenderPage2 ==
    /\ pc = "render"
    /\ \E size \in Page2Sizes : img' = render_page_to_image(size, DPI_PAGE2_RENDER)
    /\ calls' = Append(calls, "get_pixmap")
    /\ pc' = "draw"
    /\ UNCHANGED <<n_pages, config, words, lines, crm_rects, candidates, queue, burned, text>>
    /\ UNCHANGED svc_vars
    /\ UNCHANGED <<regions, bound, output_doc, metadata, warnings, result, error>>

\* int(v * dim) for a region value v in thousandths: truncation toward zero
PixelOf(v, dim) == IF v >= 0 THEN (v * dim) \div PerMille ELSE 0 - (((0 - v) * dim) \div PerMille)

\* x1 = int(coords[0] * img.width) ... y2 = int(coords[3] * img.height)
PixelRect(coords, image) ==
    Rect(PixelOf(coords[1], image.width), PixelOf(coords[2], image.height),
         PixelOf(coords[3], image.width), PixelOf(coords[4], image.height))

\* for coords in PAGE2_REDACT_COORDS: draw.rectangle([x1, y1, x2, y2], fill=(0, 0, 0))
DrawRegions ==
    /\ pc = "draw"
    /\ img' = [img EXCEPT !.drawn = [k \in 1..Len(page2_coords) |-> PixelRect(page2_coords[k], img)]]
    /\ calls' = calls \o Times(Len(page2_coords), "rectangle")
    /\ pc' = "insert"
    /\ UNCHANGED <<n_pages, config, words, lines, crm_rects, candidates, queue, burned, text>>
    /\ UNCHANGED svc_vars
    /\ UNCHANGED <<regions, bound, output_doc, metadata, warnings, result, error>>

\* img.save(img_buffer, format="PNG"); new_page = output_doc.new_page(...);
\* new_page.insert_image(page2_rect, stream=img_buffer.getvalue())
InsertImage ==
    /\ pc = "insert"
    /\ output_doc' = Append(output_doc, Page("image", 1, <<>>, img))
    /\ calls' = calls \o <<"new_page", "insert_image">>
    /\ pc' = "meta"
    /\ UNCHANGED <<n_pages, config, words, lines, crm_rects, candidates, queue, burned, text>>
    /\ UNCHANGED svc_vars
    /\ UNCHANGED <<regions, bound, img, metadata, warnings, result, error>>

\* clear_pdf_metadata(doc): three try blocks, one per kind of metadata; an
\* exception in a block is logged as a warning and dropped, and the kind of
\* that block stays in the document; the function always returns.  (The
\* fourth block, over the pages' content streams, changes nothing.)
ClearPdfMetadata ==
    /\ \/ pc = "done" /\ n_pages = 1
       \/ pc = "meta"
    /\ \E failed \in SUBSET AllMetadata :
          /\ warnings' = failed
          /\ metadata' = metadata \cap failed
    /\ calls' = Append(calls, "clear_pdf_metadata")
    /\ pc' = "save"
    /\ UNCHANGED <<n_pages, config, words, lines, crm_rects, candidates, queue, burned, text>>
    /\ UNCHANGED svc_vars
    /\ UNCHANGED <<regions, bound, output_doc, img, result, error>>

\* a hybrid strategy that also copies the pages after the second
SavedPagesWhole ==
    IF n_pages = 1 THEN <<Page("original", 0, text, NoImage)>>
    ELSE output_doc \o [k \in 1..(n_pages - 2) |-> Page("copy", k + 1, <<>>, NoImage)]

\* the document a strategy saves: doc itself (its one page, redacted), or
\* output_doc
SavedPages ==
    IF n_pages = 1 THEN <<Page("original", 0, text, NoImage)>> ELSE output_doc

\* doc.save(output_buffer) / output_doc.save(output_buffer); output_doc.close();
\* return output_buffer.getvalue(); finally: doc.close()
Save ==
    /\ pc = "save"
    /\ result' = <<[pages |-> SavedPages, metadata |-> metadata]>>
    /\ calls' = calls \o <<"save">> \o (IF n_pages = 1 THEN <<"close">> ELSE <<"close", "close">>)
    /\ pc' = "returned"
    /\ UNCHANGED <<n_pages, config, words, lines, crm_rects, candidates, queue, burned, text>>
    /\ UNCHANGED svc_vars
    /\ UNCHANGED <<regions, bound, output_doc, img, metadata, warnings, error>>

\* the positions at which the next call goes to the PDF or image library
\* and may raise: opening, the steps of the page-1 pass, the copy of page 1,
\* rendering, drawing, insertion, saving
Fallible ==
    \/ pc \in {"open", "text", "crm", "coords", "apply", "render", "draw", "insert", "save"}
    \/ pc = "done" /\ n_pages >= 2

\* a library call raises and the strategy logs it and goes on to save
RaiseSwallowed ==
    /\ Fallible
    /\ error' = pc
    /\ calls' = calls
    /\ pc' = "save"
    /\ UNCHANGED <<n_pages, config, words, lines, crm_rects, candidates, queue, burned, text>>
    /\ UNCHANGED svc_vars
    /\ UNCHANGED <<regions, bound, output_doc, img, metadata, warnings, result>>

\* a library call raises: nothing in the strategies catches it,
\* anonymize_pdf logs it, raises it again and closes doc (finally)
Raise ==
    /\ Fallible
    /\ error' = pc
    /\ calls' = IF pc = "open" THEN calls ELSE Append(calls, "close")
    /\ pc' = "failed"
    /\ UNCHANGED <<n_pages, config, words, lines, crm_rects, candidates, queue, burned, text>>
    /\ UNCHANGED svc_vars
    /\ UNCHANGED <<regions, bound, output_doc, img, metadata, warnings, result>>

\* anonymize_pdf as a whole
NextPdf ==
    \/ AnonymizePdf
    \/ AnonymizeTextOnPage1
    \/ SinglePageLabels
    \/ RedactCrmAndUpperName
    \/ RegionRedact
    \/ ApplyRedactions
    \/ CopyPage1
    \/ RenderPage2
    \/ DrawRegions
    \/ InsertImage
    \/ ClearPdfMetadata
    \/ Save
    \/ Raise

----------------------------------------------------------------------------
(* Specifications: one per family of pages *)

MaxTokens == 5          \* tokens on the line of a label page
MaxKeepTokens == 4      \* tokens on the line of a keep-label page

\* one line of tokens laid out left to right
Pitch == 60 * Unit
RowY == 20 * Unit
LaidOut(ts, pitch, y) == [k \in 1..Len(ts) |-> Word((k - 1) * pitch, y, ts[k])]

\* label pages: trigger labels with and without their colon, a keep label, values
LabelTexts == {tNome, tCPF, tSexo, tNomeBare, tAna, tSilva, t123}

InitLabel ==
    \E np \in {1, 2}, ts \in SeqsUpTo(LabelTexts, MaxTokens) :
        Start(CfgSource, np, LaidOut(ts, Pitch, RowY))

SpecLabel == InitLabel /\ [][Next]_vars

\* keep-label pages, also under a configuration with a label in both roles
KeepTexts == {tSexo, tSexoBare, tNome, tCPF, tMasculino, tAna}

\* the tokens after the second one may sit on a second row, 30 points lower
TwoRows(ts) ==
    LaidOut(Slice(ts, 0, 2), Pitch, RowY) \o LaidOut(Slice(ts, 2, Len(ts)), Pitch, RowY + 30 * Unit)

InitKeep ==
    \E cfg \in {CfgSource, CfgConflict}, np \in {1, 2}, ts \in SeqsUpTo(KeepTexts, MaxKeepTokens) :
        \E ws \in {LaidOut(ts, Pitch, RowY), TwoRows(ts)} : Start(cfg, np, ws)

SpecKeep == InitKeep /\ [][Next]_vars

MaxGroupWords == 4      \* words of a grouping page

\* grouping pages: words at two x0 and four y0, of which YP and YA differ by
\* exactly LINE_TOLERANCE and YA and YB round to the same tenth; a word that
\* differs from another in its text alone; a blank word
YP == 9 * Unit + 1
YA == 10 * Unit + 1
YB == 10 * Unit + 2
YFar == 30 * Unit
XLeft == 0 * Unit
XRight == 30 * Unit

GroupUniverse ==
    {Word(x, y, tA) : x \in {XLeft, XRight}, y \in {YP, YA, YB, YFar}}
        \cup {Word(XLeft, YA, tB), Word(XLeft, YP, tBlank)}

InitGroup ==
    \E np \in {1, 2}, ws \in SeqsUpTo(GroupUniverse, MaxGroupWords) :
        IsInjective(ws) /\ Start(CfgSource, np, ws)

SpecGroup == InitGroup /\ [][Next]_vars

MaxSigWords == 5        \* words of a signature page

\* signature pages: a line at 100 points with registration tokens, a second
\* registration line 4 points under it, and words above the first at gaps of
\* exactly PREVLINE_TOLERANCE, one unit more, 4 points and 0, one of them far
\* to the left and one with a colon
tDr == <<"D","r">>
tcrmColon == <<"c","r","m",":">>
CrmY == 100 * Unit
CrmX == 100 * Unit

SigUniverse ==
    << Word(CrmX, CrmY - PREVLINE_TOLERANCE - PADDING - Height - 1, tAna),
       Word(CrmX, CrmY - PREVLINE_TOLERANCE - PADDING - Height, tAna),
       Word(0, CrmY - 4 * Unit - PADDING - Height, tAna),
       Word(CrmX, CrmY - 4 * Unit - PADDING - Height, tObs),
       Word(CrmX, CrmY - PADDING - Height, tSilva),
       Word(40 * Unit, CrmY, tDr),
       Word(CrmX, CrmY, tCRM),
       Word(130 * Unit, CrmY, t123),
       Word(160 * Unit, CrmY, tcrm),
       Word(190 * Unit, CrmY, tcrmColon),
       Word(CrmX, CrmY + Height + PADDING + 4 * Unit, tCRMColon) >>

InitSig ==
    \E np \in {1, 2}, ws \in SubPages(SigUniverse, MaxSigWords) : Start(CfgSource, np, ws)

SpecSig == InitSig /\ [][Next]_vars

MaxPageTokens == 4      \* tokens of a mixed page

\* mixed pages: labels, values and a registration token that is also a
\* trigger label, on one row or two (the second 4 points under the padded
\* first), the words of a row 10 points or half a point apart
WideGap == 10 * Unit
TightGap == Unit \div 2
LowerRowY == RowY + Height + PADDING + 4 * Unit

RECURSIVE XAt(_, _, _)
XAt(ts, k, gap) == IF k <= 1 THEN 0 ELSE XAt(ts, k - 1, gap) + Len(ts[k - 1]) * CharW + gap

Row(ts, gap, y) == [k \in 1..Len(ts) |-> Word(XAt(ts, k, gap), y, ts[k])]

PageTexts == {tNome, tNomeBare, tCPF, tSexo, tCRMColon, tAna}

PageLayouts(ts) ==
    {Row(Slice(ts, 0, split), gap, RowY) \o Row(Slice(ts, split, Len(ts)), gap, LowerRowY) :
        gap \in {WideGap, TightGap}, split \in {2, Len(ts)}}

InitPage ==
    \E cfg \in {CfgSource, CfgScenario}, np \in {1, 2}, ts \in SeqsUpTo(PageTexts, MaxPageTokens) :
        \E ws \in PageLayouts(ts) : Start(cfg, np, ws)

SpecPage == InitPage /\ [][Next]_vars

Init == InitPage
Spec == Init /\ [][Next]_vars

\* region mapping: one region tuple of values below, in and above [0, 1]
\* (thousandths) on a page whose box starts at the origin or elsewhere; the
\* page has no words, so the region rectangle is all that is queued
RelValues == {0 - 500, 0, 250, 500, PerMille, 1500, 50000}
OffsetBound == Rect(10 * Unit, 20 * Unit, 610 * Unit, 820 * Unit)
SmallBound == Rect(0 - 5 * Unit, 0, 95 * Unit, 200 * Unit)
Boxes == {PageBound, OffsetBound, SmallBound}

InitRect ==
    \E np \in {1, 2}, b \in Boxes, rel \in [1..4 -> RelValues] :
        /\ n_pages = np
        /\ config = CfgSource
        /\ words = <<>>
        /\ pc = "text"
        /\ lines = <<>>
        /\ crm_rects = <<>>
        /\ candidates = <<>>
        /\ queue = <<>>
        /\ burned = <<>>
        /\ text = <<>>
        /\ regions = [page1 |-> <<rel>>, page2 |-> <<>>]
        /\ bound = b
        /\ calls = <<"open">>
        /\ output_doc = <<>>
        /\ img = NoImage
        /\ metadata = AllMetadata
        /\ warnings = {}
        /\ result = <<>>
        /\ error = ""
        /\ NoHandler

SpecRect == InitRect /\ [][Next]_vars

MaxPdfTokens == 3       \* tokens on page 1 of a document given to anonymize_pdf
MaxPages == 3           \* pages of a document given to anonymize_pdf

\* documents: none to MaxPages pages; page 1 (if there is one) holds a line
\* of labels, values and a registration token
PdfTexts == {tNome, tAna, tSexo, tCRM}

\* the state at the call of anonymize_pdf(pdf_content)
StartPdf(cfg, rg, np, ws) ==
    /\ n_pages = np
    /\ config = cfg
    /\ words = ws
    /\ pc = "open"
    /\ lines = <<>>
    /\ crm_rects = <<>>
    /\ candidates = <<>>
    /\ queue = <<>>
    /\ burned = <<>>
    /\ text = ws
    /\ regions = rg
    /\ bound = PageBound
    /\ calls = <<>>
    /\ output_doc = <<>>
    /\ img = NoImage
    /\ metadata = AllMetadata
    /\ warnings = {}
    /\ result = <<>>
    /\ error = ""
    /\ NoHandler

InitPdf ==
    \E rg \in {RegionsSource, RegionsNone}, np \in 0..MaxPages,
       ts \in SeqsUpTo(PdfTexts, MaxPdfTokens) :
        /\ np = 0 => ts = <<>>
        /\ StartPdf(CfgSource, rg, np, LaidOut(ts, Pitch, RowY))

SpecPdf == InitPdf /\ [][NextPdf]_vars

----------------------------------------------------------------------------
(* Reference description of the label spans *)

IsTrigger(tok) == TokNorm(tok) \in labels /\ TokNorm(tok) \notin keep
IsLabel(tok) == TokNorm(tok) \in labels \cup keep

\* index of the first label token at or after start, the line length if none
RefEnd(line, start) ==
    LET J == {j \in start..(Len(line) - 1) : IsLabel(At(line, j).text)}
    IN  IF J = {} THEN Len(line) ELSE SetMin(J)

\* the token indexes whose span is not empty, ascending
RefStarts(line) ==
    LET idx == [k \in 1..Len(line) |-> k - 1]
        emits(i) == IsTrigger(At(line, i).text) /\ RefEnd(line, i + 1) > i + 1
    IN  SelectSeq(idx, emits)

RefLineRects(line) ==
    LET st == RefStarts(line)
    IN  [k \in 1..Len(st) |-> rect_of_words(line, st[k] + 1, RefEnd(line, st[k] + 1))]

RefLabelRects(lns) == Flatten([k \in 1..Len(lns) |-> RefLineRects(lns[k])])

NomeAnaSilvaCpf123 == <<tNome, tAna, tSilva, tCPF, t123>>

\* C1: when the label loop has run, the queue holds exactly the rectangles of
\* the reference spans, line by line and left to right: one per token whose
\* normalized key is a trigger and no keep label, over the tokens from the
\* next one up to the next label or the line end, and none if that range is
\* empty; the line Nome: Ana Silva CPF: 123 gets one over Ana Silva and one
\* over 123.
C1_LabelSpans ==
    pc = "crm" =>
        /\ lines = words_by_line(words)
        /\ queue = RefLabelRects(lines)
        /\ (Len(lines) = 1 /\ TextsOf(lines[1]) = NomeAnaSilvaCpf123) =>
               queue = <<rect_of_words(lines[1], 1, 3), rect_of_words(lines[1], 4, 5)>>

C1_Witness ==
    /\ pc = "crm"
    /\ Len(lines) = 1 /\ TextsOf(lines[1]) = NomeAnaSilvaCpf123
    /\ Len(queue) = 2

IsKeepLabel(tok) == TokNorm(tok) \in keep

\* token t of the line lies between a keep label and the next label or line end
IsKeepValue(line, t) ==
    /\ ~IsLabel(At(line, t).text)
    /\ \E k \in 0..(t - 1) :
          /\ IsKeepLabel(At(line, k).text)
          /\ \A m \in (k + 1)..(t - 1) : ~IsLabel(At(line, m).text)

\* the token ranges [s, e) of the lines whose rectangle is r
SpansOf(lns, r) ==
    UNION {{<<n, s, e>> : s \in 0..Len(lns[n]), e \in 0..Len(lns[n])} : n \in 1..Len(lns)}
        \cap {sp \in Nat \X Nat \X Nat :
                sp[2] < sp[3] /\ rect_of_words(lns[sp[1]], sp[2], sp[3]) = r}

SexoMasculinoNomeAna == <<tSexo, tMasculino, tNome, tAna>>

\* C4: every rectangle the label loop queues is that of a token range which
\* holds no keep value and does not follow a keep label (not even one that is
\* also listed as a trigger); the line Sexo: Masculino Nome: Ana gets the one
\* span over Ana.
C4_KeepImmunity ==
    pc = "crm" =>
        /\ \A q \in 1..Len(queue) :
              /\ SpansOf(lines, queue[q]) # {}
              /\ \A sp \in SpansOf(lines, queue[q]) :
                    /\ \A t \in sp[2]..(sp[3] - 1) : ~IsKeepValue(lines[sp[1]], t)
                    /\ ~IsKeepLabel(At(lines[sp[1]], sp[2] - 1).text)
        /\ (Len(lines) = 1 /\ TextsOf(lines[1]) = SexoMasculinoNomeAna) =>
               queue = <<rect_of_words(lines[1], 3, 4)>>

C4_Witness ==
    /\ pc = "crm"
    /\ Len(lines) = 1 /\ TextsOf(lines[1]) = SexoMasculinoNomeAna
    /\ keep = {tSexo} /\ tSexo \in labels
    /\ Len(queue) = 1

----------------------------------------------------------------------------
(* LineGrouper properties *)

Perms(ws) ==
    {[k \in 1..Len(ws) |-> ws[p[k]]] :
        p \in {q \in [1..Len(ws) -> 1..Len(ws)] : IsInjective(q)}}

Grouped == pc # "text"

\* C5 (as claimed): the lines grouped from the page are those grouped from
\* every reordering of the same words.
C5_OrderIndependent ==
    Grouped => \A ws \in Perms(words) : words_by_line(ws) = lines

\* C6 (as claimed): in every line each word starts at or to the right of the
\* start of the word before it.
C6_LeftToRight ==
    Grouped =>
        \A n \in 1..Len(lines) : \A k \in 1..(Len(lines[n]) - 1) :
            lines[n][k].x0 <= lines[n][k + 1].x0

\* the places (line, position) at which word w stands in the lines
PlacesOf(lns, w) ==
    {<<n, k>> \in (1..Len(lns)) \X (1..Len(words)) : k <= Len(lns[n]) /\ lns[n][k] = w}

\* C7: the lines partition the non-blank words: each stands at exactly one
\* place, every word of a line is a non-blank word of the page, no line is
\* empty, a page without words gives no line and a page of one (non-blank)
\* word gives one line of that word.
C7_Partition ==
    Grouped =>
        /\ \A i \in 1..Len(words) :
              IF Strip(words[i].text) # <<>>
              THEN Cardinality(PlacesOf(lines, words[i])) = 1
              ELSE PlacesOf(lines, words[i]) = {}
        /\ \A n \in 1..Len(lines) :
              /\ lines[n] # <<>>
              /\ \A k \in 1..Len(lines[n]) :
                    /\ Strip(lines[n][k].text) # <<>>
                    /\ \E i \in 1..Len(words) : words[i] = lines[n][k]
        /\ (words = <<>> => lines = <<>>)
        /\ (Len(words) = 1 /\ Strip(words[1].text) # <<>> => lines = << <<words[1]>> >>)

\* a page with a blank word, a line of two words and a line of one
C7_Witness ==
    /\ Grouped
    /\ Len(words) = 4 /\ Len(lines) = 2
    /\ \E i \in 1..Len(words) : Strip(words[i].text) = <<>>
    /\ \E n \in 1..Len(lines) : Len(lines[n]) = 2

----------------------------------------------------------------------------
(* SignatureHeuristic properties *)

CrmDone == pc = "coords"

\* Part A as described: per line and per registration token i, left to right,
\* the rectangle of the tokens [i, line length)
RefCrmStarts(line) ==
    LET idx == [k \in 1..Len(line) |-> k - 1]
        isReg(i) == Strip(At(line, i).text) \in {tCRM, tCRMColon, tcrm}
    IN  SelectSeq(idx, isReg)

RefLineCrmRects(line) ==
    LET st == RefCrmStarts(line)
    IN  [k \in 1..Len(st) |-> rect_of_words(line, st[k], Len(line))]

RefCrmRects(lns) == Flatten([k \in 1..Len(lns) |-> RefLineCrmRects(lns[k])])

\* the part of the queue behind the rectangles of the label loop
AfterLabels == Slice(queue, Len(RefLabelRects(lines)), Len(queue))
PartA == Slice(AfterLabels, 0, Len(RefCrmRects(lines)))
PartB == Slice(AfterLabels, Len(RefCrmRects(lines)), Len(AfterLabels))

Inside(inner, outer) ==
    outer.x0 <= inner.x0 /\ outer.y0 <= inner.y0 /\ inner.x1 <= outer.x1 /\ inner.y1 <= outer.y1

\* C8: Part A queues, per line and per token whose trimmed text is a
\* registration token, the rectangle over that token and every token to its
\* right; it reaches no token left of the first registration token of the
\* line, and a line without one gets no rectangle of Part A.
C8_PartA ==
    CrmDone =>
        /\ Len(AfterLabels) >= Len(RefCrmRects(lines))
        /\ PartA = RefCrmRects(lines)
        /\ \A n \in 1..Len(lines) :
              LET st == RefCrmStarts(lines[n])
                  rs == RefLineCrmRects(lines[n])
              IN  \A k \in 1..Len(st) :
                    /\ \E q \in 1..Len(PartA) : PartA[q] = rs[k]
                    /\ \A t \in st[k]..(Len(lines[n]) - 1) : Inside(WordBox(At(lines[n], t)), rs[k])
                    /\ \A t \in 0..(st[1] - 1) : ~Intersects(rs[k], WordBox(At(lines[n], t)))
        /\ (\A n \in 1..Len(lines) : RefCrmStarts(lines[n]) = <<>>) => PartA = <<>>

\* a line with a word left of CRM, a value right of it and crm: two rectangles
C8_Witness ==
    /\ CrmDone
    /\ \E n \in 1..Len(lines) :
          /\ TextsOf(lines[n]) = <<tDr, tCRM, t123, tcrm>>
          /\ Len(PartA) = 2
          /\ ~IsRedacted(lines[n][1], PartA)

\* the rectangle of a whole line, as Part B computes it
LineRect(line) == rect_of_words(line, 0, Len(line))

HorizontalNear(l, r) == l.x1 > r.x0 - 50 * Unit /\ l.x0 < r.x1 + 50 * Unit

IsListed(cands, line) == \E c \in 1..Len(cands) : cands[c].line = line

\* C9: for an occurrence R and a line L that is horizontally near R and ends
\* at or above R's top, L is a candidate of R when R.y0 - L.y1 is exactly
\* PREVLINE_TOLERANCE, and is none when the gap is greater.
C9_GapBoundary ==
    CrmDone =>
        /\ Len(candidates) = Len(crm_rects)
        /\ \A k \in 1..Len(crm_rects) : \A n \in 1..Len(lines) :
              LET R == crm_rects[k]
                  L == LineRect(lines[n])
              IN  (HorizontalNear(L, R) /\ L.y1 <= R.y0) =>
                     /\ (R.y0 - L.y1 = PREVLINE_TOLERANCE => IsListed(candidates[k], lines[n]))
                     /\ (R.y0 - L.y1 > PREVLINE_TOLERANCE => ~IsListed(candidates[k], lines[n]))

\* a page with a line at exactly the tolerated gap, listed for an occurrence
C9_Witness ==
    /\ CrmDone
    /\ \E k \in 1..Len(crm_rects) : \E n \in 1..Len(lines) :
          /\ HorizontalNear(LineRect(lines[n]), crm_rects[k])
          /\ crm_rects[k].y0 - LineRect(lines[n]).y1 = PREVLINE_TOLERANCE
          /\ IsListed(candidates[k], lines[n])

\* what Part B may queue for candidate list cands: nothing when it is empty or
\* when a candidate of least gap has a colon, else that candidate's rectangle
LeastGap(cands) == SetMin({cands[c].gap : c \in 1..Len(cands)})
RefSignature(cands) ==
    IF cands = <<>> THEN <<>>
    ELSE LET c == CHOOSE d \in 1..Len(cands) : cands[d].gap = LeastGap(cands)
         IN  IF \E t \in 1..Len(cands[c].line) : HasColon(cands[c].line[t].text)
             THEN <<>>
             ELSE <<LineRect(cands[c].line)>>

\* C10: per occurrence Part B queues at most one rectangle: that of the
\* candidate of least gap if its text has no colon, nothing if that candidate
\* has a colon (no farther candidate is taken instead) or if there is no
\* candidate; no line with a colon is queued by Part B.
C10_PartB ==
    CrmDone =>
        /\ PartB = Flatten([k \in 1..Len(candidates) |-> RefSignature(candidates[k])])
        /\ Len(PartB) <= Len(crm_rects)
        /\ \A q \in 1..Len(PartB) : \A n \in 1..Len(lines) :
              LineRect(lines[n]) = PartB[q] =>
                  \A t \in 1..Len(lines[n]) : ~HasColon(lines[n][t].text)

\* an occurrence with two candidates whose closest has a colon (nothing is
\* queued for it), on a page where another occurrence gets its signature line
C10_Witness ==
    /\ CrmDone
    /\ \E k \in 1..Len(candidates) :
          Len(candidates[k]) = 2 /\ RefSignature(candidates[k]) = <<>>
    /\ Len(PartB) >= 1

----------------------------------------------------------------------------
(* The page after burn-in *)

Burned == pc = "done"

\* token t of the line lies in the value span of a trigger label
IsTriggerValue(line, t) ==
    /\ ~IsLabel(At(line, t).text)
    /\ \E k \in 0..(t - 1) :
          /\ IsTrigger(At(line, k).text)
          /\ \A m \in (k + 1)..(t - 1) : ~IsLabel(At(line, m).text)

InText(w) == \E k \in 1..Len(text) : text[k] = w

\* the rectangles of the label loop, of Part A and of Part B among the burned
\* ones (the configured regions follow them)
TextRects == Slice(burned, 0, Len(burned) - Len(PAGE1_REDACT_COORDS))

GrownBox(line, s, e, m) ==
    LET T == {At(line, t) : t \in s..(e - 1)}
    IN  Rect(SetMin({w.x0 : w \in T}) - m, SetMin({w.y0 : w \in T}) - m,
             SetMax({w.x1 : w \in T}) + m, SetMax({w.y1 : w \in T}) + m)

\* the redacted runs of the page as token ranges <<line, s, e>>: the value
\* spans of trigger labels, the runs from a registration token to the line
\* end, and the lines Part B chose
Runs ==
    UNION {{<<n, RefStarts(lines[n])[k] + 1, RefEnd(lines[n], RefStarts(lines[n])[k] + 1)>> :
                k \in 1..Len(RefStarts(lines[n]))} : n \in 1..Len(lines)}
    \cup UNION {{<<n, RefCrmStarts(lines[n])[k], Len(lines[n])>> :
                k \in 1..Len(RefCrmStarts(lines[n]))} : n \in 1..Len(lines)}
    \cup {<<n, 0, Len(lines[n])>> : n \in {m \in 1..Len(lines) :
                \E k \in 1..Len(candidates) : RefSignature(candidates[k]) = <<LineRect(lines[m])>>}}

ReachedByRun(w) ==
    \E r \in Runs : Intersects(GrownBox(lines[r[1]], r[2], r[3], PADDING), WordBox(w))

C3_KeepValuesPreserved ==
    CrmDone =>
        \A n \in 1..Len(lines) : \A t \in 0..(Len(lines[n]) - 1) :
            IsKeepValue(lines[n], t) => ~IsRedacted(At(lines[n], t), queue)

----------------------------------------------------------------------------
(* anonymize_pdf: dispatch, failure and output *)

Returned == pc = "returned"
Failed == pc = "failed"

HasCall(c) == \E k \in 1..Len(calls) : calls[k] = c
CountCalls(c) == Cardinality({k \in 1..Len(calls) : calls[k] = c})
FirstCall(c) == SetMin({k \in 1..Len(calls) : calls[k] = c})
LastCall(c) == SetMax({k \in 1..Len(calls) : calls[k] = c})

\* the calls only the hybrid strategy makes
HybridCalls == {"insert_pdf", "get_pixmap", "rectangle", "new_page", "insert_image"}

\* C11: a document of one page is never rendered nor copied, and what is
\* returned for it is the document itself with its one redacted page; for a
\* document of two or more pages the returned document has exactly two
\* pages, the copy of the redacted page 1 and the page made by inserting the
\* rendered image of page 2; no later page of the input is in the output.
C11_Dispatch ==
    /\ n_pages = 1 => \A c \in HybridCalls : ~HasCall(c)
    /\ Returned /\ n_pages = 1 =>
          result = <<[pages |-> <<Page("original", 0, apply_redactions(words, burned), NoImage)>>,
                     metadata |-> metadata]>>
    /\ Returned /\ n_pages >= 2 =>
          /\ Len(result) = 1 /\ Len(result[1].pages) = 2
          /\ result[1].pages[1] = Page("copy", 0, apply_redactions(words, burned), NoImage)
          /\ result[1].pages[2].kind = "image" /\ result[1].pages[2].from = 1
          /\ result[1].pages[2].img.width > 0
          /\ HasCall("get_pixmap") /\ HasCall("insert_image")
          /\ FirstCall("get_pixmap") < FirstCall("insert_image")
          /\ \A k \in 1..Len(result[1].pages) : result[1].pages[k].from <= 1

\* a document of three pages with a label line, returned with two pages
C11_Witness ==
    /\ Returned /\ n_pages = 3
    /\ TextsOf(words) = <<tNome, tAna>>
    /\ Len(result[1].pages) = 2
    /\ TextsOf(result[1].pages[1].text) = <<tNome>>

\* C12: a document without pages, once opened, ends in the failure
\* EmptyDocument: it is closed, no call is made on a page, on an image or to
\* save, and nothing is returned.
C12_EmptyDocument ==
    n_pages = 0 =>
        /\ pc \in {"open", "failed"}
        /\ result = <<>>
        /\ calls \in {<<>>, <<"open", "close">>}
        /\ HasCall("open") => Failed /\ error = EmptyDocument

\* the refused empty document
C12_Witness ==
    /\ n_pages = 0 /\ Failed
    /\ error = EmptyDocument /\ calls = <<"open", "close">> /\ result = <<>>

\* every rectangle the page-1 pass has to queue for the words of page 1
Page1Rects ==
    redact_line_values_after_label(words, labels \cup keep, keep)
        \o redact_crm_and_upper_name(words) \o RegionRects

\* the steps of the strategy selected for the document
StrategyCalls ==
    IF n_pages = 1 THEN {"get_text", "search_for", "apply_redactions", "save"}
    ELSE {"get_text", "search_for", "apply_redactions", "insert_pdf", "get_pixmap",
          "new_page", "insert_image", "save"}

\* the names under which a failure is raised: the step that failed
FailureNames ==
    {"open", "text", "crm", "coords", "apply", "done", "render", "draw", "insert", "save",
     EmptyDocument}

\* C13: a failure of a step ends anonymize_pdf in failure with the error of
\* that step and without bytes; bytes are returned only after every step of
\* the selected strategy, and the returned document then has page 1 with all
\* its redactions burned in and, in the hybrid strategy, page 2 with all its
\* regions drawn.
C13_AllOrNothing ==
    /\ Failed => result = <<>> /\ error \in FailureNames
    /\ ~Failed => error = ""
    /\ result # <<>> =>
          /\ Returned /\ error = "" /\ Len(result) = 1
          /\ \A c \in StrategyCalls : HasCall(c)
          /\ CountCalls("add_redact_annot") = Len(Page1Rects)
          /\ burned = Page1Rects
          /\ result[1].pages[1].text = apply_redactions(words, Page1Rects)
          /\ n_pages >= 2 =>
                /\ Len(result[1].pages) = 2
                /\ Len(result[1].pages[2].img.drawn) = Len(page2_coords)
                /\ CountCalls("rectangle") = Len(page2_coords)

\* rendering page 2 failed after page 1 was redacted and copied: the
\* output document built so far is not returned
C13_Witness ==
    /\ Failed /\ error = "render"
    /\ Len(output_doc) = 1 /\ burned # <<>>
    /\ result = <<>>

\* C14 (as claimed): a returned document was saved after clear_pdf_metadata
\* ran, no block of clear_pdf_metadata failed, and the document holds no
\* metadata.
C14_MetadataStripped ==
    Returned =>
        /\ HasCall("clear_pdf_metadata")
        /\ LastCall("clear_pdf_metadata") < FirstCall("save")
        /\ warnings = {}
        /\ result[1].metadata = {}

----------------------------------------------------------------------------
(* Regions *)

\* a region tuple with a value outside [0, 1]
OutOfRange(coords) == \E k \in 1..4 : coords[k] < 0 \/ coords[k] > PerMille

BadRegions(cs) == {k \in 1..Len(cs) : OutOfRange(cs[k])}

\* the positions after the region loop of page 1, and after that of page 2
AfterRegionLoop1 == {"apply", "done", "render", "draw", "insert", "meta", "save", "returned"}
AfterRegionLoop2 == {"insert", "meta", "save", "returned"}

\* C15 (as claimed): a region tuple with a value outside [0, 1] is an error
\* of the configuration: the page-1 loop does not get past it (none of its
\* rectangles is queued or burned), the page-2 loop draws none of its
\* rectangles, and no document is returned.
C15_OutOfRangeRefused ==
    /\ BadRegions(page1_coords) # {} => pc \notin AfterRegionLoop1 /\ result = <<>>
    /\ BadRegions(page2_coords) # {} /\ n_pages >= 2 =>
          pc \notin AfterRegionLoop2 /\ img.drawn = <<>> /\ result = <<>>

\* C16 (as claimed): every rectangle drawn on the image of page 2 lies in
\* the image, low corner first: 0 <= x0 <= x1 <= width, 0 <= y0 <= y1 <= height.
C16_RasterRectsInside ==
    \A k \in 1..Len(img.drawn) :
        LET r == img.drawn[k] IN
        /\ 0 <= r.x0 /\ r.x0 <= r.x1 /\ r.x1 <= img.width
        /\ 0 <= r.y0 /\ r.y0 <= r.y1 /\ r.y1 <= img.height

InRange(coords) == ~OutOfRange(coords)
Least(a, b) == IF a < b THEN a ELSE b
Greatest(a, b) == IF a < b THEN b ELSE a

\* the rectangle queued for region k of page 1: the regions are queued last
QueuedRegion(k) == queue[Len(queue) - Len(page1_coords) + k]

\* C17: for every region tuple and page box the rectangle of to_abs_rect has
\* x0 <= x1 and y0 <= y1 and lies in the page box; for a tuple of values in
\* [0, 1] each coordinate is page origin + page size x value, the lower of
\* the two values of an axis first.
C17_ToAbsRect ==
    pc = "apply" =>
        \A k \in 1..Len(page1_coords) :
            LET r == QueuedRegion(k)
                rel == page1_coords[k]
                width == bound.x1 - bound.x0
                height == bound.y1 - bound.y0
            IN  /\ r.x0 <= r.x1 /\ r.y0 <= r.y1
                /\ bound.x0 <= r.x0 /\ r.x1 <= bound.x1
                /\ bound.y0 <= r.y0 /\ r.y1 <= bound.y1
                /\ InRange(rel) =>
                      /\ r.x0 * PerMille = bound.x0 * PerMille + width * Least(rel[1], rel[3])
                      /\ r.x1 * PerMille = bound.x0 * PerMille + width * Greatest(rel[1], rel[3])
                      /\ r.y0 * PerMille = bound.y0 * PerMille + height * Least(rel[2], rel[4])
                      /\ r.y1 * PerMille = bound.y0 * PerMille + height * Greatest(rel[2], rel[4])

\* the tuple (1, 0.25, 0.5, 0), reversed on both axes, on the page box
\* (10, 20, 610, 820): the rectangle (310, 20, 610, 220)
C17_Witness ==
    /\ pc = "apply"
    /\ bound = OffsetBound
    /\ page1_coords = << <<PerMille, 250, 500, 0>> >>
    /\ queue = <<Rect(310 * Unit, 20 * Unit, 610 * Unit, 220 * Unit)>>

----------------------------------------------------------------------------
(* The two strategies on page 1 *)

\* what the single-page strategy has to queue for the words of page 1: its
\* inlined loop, redact_crm_and_upper_name, the region loop
SinglePageRects ==
    single_page_label_loop(words, labels \cup keep, keep)
        \o redact_crm_and_upper_name(words) \o RegionRects

\* C18: when the rectangles of page 1 are complete, the queue is the same
\* sequence whichever strategy ran: the label spans, then the rectangles of
\* the registration tokens and signature lines, then the regions; what the
\* single-page strategy queued is what the hybrid one would queue for these
\* words, and conversely.
C18_SamePage1Rects ==
    pc = "apply" =>
        /\ queue = Page1Rects
        /\ queue = SinglePageRects
        /\ Page1Rects = SinglePageRects

\* the single-page strategy on Nome: Ana CRM: a label span, the rectangle of
\* the registration token and the three regions
C18_Witness ==
    /\ pc = "apply" /\ n_pages = 1
    /\ TextsOf(words) = <<tNome, tAna, tCRM>>
    /\ Len(queue) = 5 /\ Len(RegionRects) = 3

----------------------------------------------------------------------------
(* Order of the calls *)

CallsOf(c) == {k \in 1..Len(calls) : calls[k] = c}

\* C19: apply_redactions is called at most once, and once in a returned
\* run; every add_redact_annot of page 1 comes before it, they are as many
\* as the rectangles of page 1, what is burned is all of them and the queue
\* is empty afterwards; in the hybrid strategy page 1 is copied after the
\* burn-in and as burned, every rectangle of page 2 is drawn before the
\* image is inserted, and clear_pdf_metadata comes before save.
C19_Order ==
    /\ CountCalls("apply_redactions") <= 1
    /\ Returned => CountCalls("apply_redactions") = 1
    /\ HasCall("apply_redactions") =>
          /\ \A k \in CallsOf("add_redact_annot") : k < FirstCall("apply_redactions")
          /\ CountCalls("add_redact_annot") = Len(Page1Rects)
          /\ burned = Page1Rects /\ queue = <<>>
    /\ HasCall("insert_pdf") =>
          /\ HasCall("apply_redactions")
          /\ FirstCall("apply_redactions") < FirstCall("insert_pdf")
          /\ output_doc[1].text = apply_redactions(words, Page1Rects)
    /\ HasCall("insert_image") =>
          /\ \A k \in CallsOf("rectangle") : k < FirstCall("insert_image")
          /\ CountCalls("rectangle") = Len(page2_coords)
          /\ output_doc[2].img.drawn = img.drawn
    /\ \A k \in CallsOf("rectangle") : HasCall("get_pixmap") /\ FirstCall("get_pixmap") < k
    /\ HasCall("save") =>
          /\ CountCalls("clear_pdf_metadata") = 1
          /\ FirstCall("clear_pdf_metadata") < FirstCall("save")

\* the whole hybrid run on Nome: Ana with the regions of config.py
C19_Witness ==
    /\ Returned /\ n_pages = 2
    /\ TextsOf(words) = <<tNome, tAna>>
    /\ calls = <<"open", "get_text", "add_redact_annot", "get_text",
                 "search_for", "search_for", "search_for",
                 "add_redact_annot", "add_redact_annot", "add_redact_annot",
                 "apply_redactions", "insert_pdf", "get_pixmap",
                 "rectangle", "rectangle", "rectangle", "rectangle", "rectangle", "rectangle",
                 "new_page", "insert_image", "clear_pdf_metadata", "save", "close", "close">>

----------------------------------------------------------------------------
(* What the region loops add *)

\* the rectangles of label matching and of the signature heuristic
TextPassRects ==
    redact_line_values_after_label(words, labels \cup keep, keep)
        \o redact_crm_and_upper_name(words)

\* C20: the region loop of page 1 adds one rectangle per region of the list,
\* in its order, behind those of label matching and of the signature
\* heuristic, and leaves the page as it was; with an empty list what is
\* burned is what those two produced.  The loop of page 2 draws one rectangle
\* per region of its list; with an empty list nothing is drawn and the image
\* inserted is the image as rendered.
C20_RegionsOnly ==
    /\ pc = "apply" =>
          /\ queue = TextPassRects
                       \o [k \in 1..Len(page1_coords) |-> to_abs_rect(bound, page1_coords[k])]
          /\ text = words /\ burned = <<>>
    /\ HasCall("apply_redactions") /\ page1_coords = <<>> => burned = TextPassRects
    /\ pc \in AfterRegionLoop2 /\ n_pages >= 2 =>
          /\ Len(img.drawn) = Len(page2_coords)
          /\ CountCalls("rectangle") = Len(page2_coords)
    /\ HasCall("insert_image") /\ page2_coords = <<>> =>
          /\ output_doc[2].img.drawn = <<>>
          /\ \E size \in Page2Sizes :
                output_doc[2].img = render_page_to_image(size, DPI_PAGE2_RENDER)

\* a returned two-page document under empty region lists: page 1 carries the
\* one label span, the image of page 2 is untouched
C20_Witness ==
    /\ Returned /\ n_pages = 2
    /\ page1_coords = <<>> /\ page2_coords = <<>>
    /\ TextsOf(words) = <<tNome, tAna>>
    /\ Len(burned) = 1
    /\ result[1].pages[2].img.width > 0 /\ result[1].pages[2].img.drawn = <<>>

----------------------------------------------------------------------------
(* LineGrouper against the running-reference rule *)

RECURSIVE Pow2(_)
Pow2(n) == IF n <= 0 THEN 1 ELSE 2 * Pow2(n - 1)

\* the reference y after the first k words of the sorted sequence ws, as a
\* numerator over Pow2(k - 1); the k-th word joins the open line iff it is
\* the first word or its y0 is within LINE_TOLERANCE of the reference before it
RECURSIVE RefNum(_, _)
RefJoins(ws, k) ==
    \/ k = 1
    \/ LET diff == ws[k].y0 * Pow2(k - 2) - RefNum(ws, k - 1)
       IN  diff <= LINE_TOLERANCE * Pow2(k - 2) /\ 0 - diff <= LINE_TOLERANCE * Pow2(k - 2)
RefNum(ws, k) ==
    IF k = 1 THEN ws[1].y0
    ELSE IF RefJoins(ws, k) THEN RefNum(ws, k - 1) + ws[k].y0 * Pow2(k - 2)
    ELSE ws[k].y0 * Pow2(k - 1)

\* the positions at which a line starts, and the lines cut there
RefStartsOfLines(ws) == {k \in 1..Len(ws) : k = 1 \/ ~RefJoins(ws, k)}
RefLineEnd(ws, s) ==
    LET later == {k \in RefStartsOfLines(ws) : k > s}
    IN  IF later = {} THEN Len(ws) ELSE SetMin(later) - 1
RefNthStart(ws, n) ==
    CHOOSE s \in RefStartsOfLines(ws) :
        Cardinality({k \in RefStartsOfLines(ws) : k < s}) = n - 1
RefLines(ws) ==
    [n \in 1..Cardinality(RefStartsOfLines(ws)) |->
        SubSeq(ws, RefNthStart(ws, n), RefLineEnd(ws, RefNthStart(ws, n)))]

\* C25: the lines grouped from the page are those of the running-reference
\* rule walked over the non-blank words in sorted order: a word joins the
\* open line iff it is the first or its y0 is at most LINE_TOLERANCE from the
\* reference y (equality joins), the reference then being the midpoint of
\* itself and y0 (y0 for the first word); any other word closes the line,
\* starts the next and resets the reference to its y0.
C25_RunningReference ==
    Grouped => lines = RefLines(StableSort(NonBlank(words)))

\* a page on which a word exactly LINE_TOLERANCE below the reference joins
\* the open line and a far word starts the next line
C25_Witness ==
    /\ Grouped
    /\ Len(lines) = 2
    /\ \E k \in 1..(Len(lines[1]) - 1) :
          /\ lines[1][k].y0 = YP /\ lines[1][k + 1].y0 = YA
          /\ YA - YP = LINE_TOLERANCE
    /\ lines[2][1].y0 = YFar

----------------------------------------------------------------------------
(* Per-page rule evaluation raises nothing *)

NoValueError(rects) == \A k \in 1..Len(rects) : rects[k] # ValueError

\* the last token of a line is a trigger label: the span after it is empty
TriggerAtLineEnd ==
    \E n \in 1..Len(lines) :
        StartsSpan(lines[n][Len(lines[n])].text, labels \cup keep, keep)

\* C26: the page-1 rules raise nothing: rect_of_words is never given an
\* empty range, so no rectangle queued or burned, no line rectangle and no
\* candidate of Part B is the ValueError of min() over an empty list; and no
\* grouped line is empty.
C26_NeverFails ==
    /\ NoValueError(queue)
    /\ NoValueError(burned)
    /\ \A n \in 1..Len(lines) : lines[n] # <<>>
    /\ \A h \in 1..Len(candidates) : \A k \in 1..Len(candidates[h]) :
          candidates[h][k].rect # ValueError
    /\ pc \in {"coords", "apply", "done"} =>
          /\ \A k \in 1..Len(lines) : LineRects(lines)[k].rect # ValueError
          /\ NoValueError(redact_line_values_after_label(words, labels \cup keep, keep))
          /\ NoValueError(redact_crm_and_upper_name(words))

\* a page whose line ends in a trigger label and that holds a registration
\* token has gone through the whole pass
C26_Witness ==
    /\ pc = "done"
    /\ TriggerAtLineEnd
    /\ crm_rects # <<>>
    /\ burned # <<>>

----------------------------------------------------------------------------
(* Labels of several words *)

MaxMultiTokens == 3     \* tokens on the line of a page of label words

\* the words of three labels that contain a space, and a value
tMedico == <<"M","é","d","i","c","o">>
tResponsavel == <<"R","e","s","p","o","n","s","á","v","e","l",":">>
tData == <<"D","a","t","a">>
tDe == <<"d","e">>
tNascimento == <<"N","a","s","c","i","m","e","n","t","o",":">>
tReg == <<"R","e","g",".">>
tClinico == <<"C","l","í","n","i","c","o",":">>

MultiTexts == {tMedico, tResponsavel, tData, tDe, tNascimento, tReg, tClinico, tAna}

InitMulti ==
    \E np \in {1, 2}, ts \in SeqsUpTo(MultiTexts, MaxMultiTokens) :
        Start(CfgSource, np, LaidOut(ts, Pitch, RowY))

SpecMulti == InitMulti /\ [][Next]_vars

\* the label rules have run and nothing else has queued yet
LabelsDone == pc = "crm"

HasSpace(t) == \E k \in 1..Len(t) : t[k] = " "
SingleWord(S) == {l \in S : ~HasSpace(l)}

----------------------------------------------------------------------------
(* Part B: the gap between a line and an occurrence *)

MaxGapWords == 4        \* words of a gap page

\* gap pages: a registration token with a word to its left, and words whose
\* lower edge is 0, PADDING less one unit, PADDING, PREVLINE_TOLERANCE +
\* PADDING and one unit more above the top of the token, one of them far left
GapUniverse ==
    << Word(CrmX, CrmY - PREVLINE_TOLERANCE - PADDING - Height - 1, tAna),
       Word(CrmX, CrmY - PREVLINE_TOLERANCE - PADDING - Height, tAna),
       Word(0, CrmY - PREVLINE_TOLERANCE - PADDING - Height, tSilva),
       Word(CrmX, CrmY - PADDING - Height, tSilva),
       Word(CrmX, CrmY - PADDING - Height + 1, tAna),
       Word(CrmX, CrmY - Height, tAna),
       Word(40 * Unit, CrmY, tDr),
       Word(CrmX, CrmY, tCRM) >>

InitGap ==
    \E np \in {1, 2}, ws \in SubPages(GapUniverse, MaxGapWords) : Start(CfgSource, np, ws)

SpecGap == InitGap /\ [][Next]_vars

\* the box of the words of a line, without any margin
WordsBottom(line) == SetMax({line[k].y1 : k \in 1..Len(line)})
WordsTop(line) == SetMin({line[k].y0 : k \in 1..Len(line)})
WordsLeft(line) == SetMin({line[k].x0 : k \in 1..Len(line)})
WordsRight(line) == SetMax({line[k].x1 : k \in 1..Len(line)})

\* the gap g between the words of a line and the top of occurrence R
WordGap(line, R) == R.y0 - WordsBottom(line)

\* the horizontal condition, on the inflated box
PaddedNear(line, R) ==
    /\ WordsRight(line) + PADDING > R.x0 - HMargin
    /\ WordsLeft(line) - PADDING < R.x1 + HMargin

\* occurrence R was found in a word of the line
HoldsOccurrence(line, R) ==
    \E t \in 1..Len(line) :
        /\ line[t].y0 = R.y0 /\ line[t].y1 = R.y1
        /\ line[t].x0 <= R.x0 /\ R.x1 <= line[t].x1

\* C28: in Part B the rectangle of a line is the box of its words grown by
\* PADDING on every side, the occurrence rectangle has the height of its
\* word; a line is a candidate of occurrence R iff its word gap g satisfies
\* PADDING <= g <= PREVLINE_TOLERANCE + PADDING and the padded box is
\* horizontally near R; so a line ending less than PADDING above R is no
\* candidate, and neither is the line that holds R.
C28_PaddedGap ==
    CrmDone =>
        /\ \A k \in 1..Len(crm_rects) :
              \E i \in 1..Len(words) : HoldsOccurrence(<<words[i]>>, crm_rects[k])
        /\ \A k \in 1..Len(crm_rects) : \A n \in 1..Len(lines) :
              LET R == crm_rects[k]
                  g == WordGap(lines[n], R)
              IN  /\ IsListed(candidates[k], lines[n])
                        <=> (PADDING <= g /\ g <= PREVLINE_TOLERANCE + PADDING
                                /\ PaddedNear(lines[n], R))
                  /\ (g < PADDING => ~IsListed(candidates[k], lines[n]))
                  /\ (HoldsOccurrence(lines[n], R) => ~IsListed(candidates[k], lines[n]))
        /\ \A k \in 1..Len(candidates) : \A c \in 1..Len(candidates[k]) :
              LET line == candidates[k][c].line
              IN  /\ candidates[k][c].rect =
                        Rect(WordsLeft(line) - PADDING, WordsTop(line) - PADDING,
                             WordsRight(line) + PADDING, WordsBottom(line) + PADDING)
                  /\ candidates[k][c].gap = WordGap(line, crm_rects[k]) - PADDING

\* a page with a line one unit less than PADDING above the occurrence (no
\* candidate), a line at the greatest gap (a candidate), and the
\* occurrence's own line
C28_Witness ==
    /\ CrmDone
    /\ \E k \in 1..Len(crm_rects) : \E n, m, o \in 1..Len(lines) :
          /\ WordGap(lines[n], crm_rects[k]) = PADDING - 1
          /\ PaddedNear(lines[n], crm_rects[k])
          /\ ~IsListed(candidates[k], lines[n])
          /\ WordGap(lines[m], crm_rects[k]) = PREVLINE_TOLERANCE + PADDING
          /\ IsListed(candidates[k], lines[m])
          /\ HoldsOccurrence(lines[o], crm_rects[k])

----------------------------------------------------------------------------
(* The Lambda handler of lambda_main.py: download, anonymize_pdf, upload *)

None == <<>>

\* anonymize_pdf is not being stepped through: it is called as a function
NoDocument ==
    /\ n_pages = 0
    /\ config = CfgSource
    /\ words = <<>>
    /\ pc = "none"
    /\ lines = <<>>
    /\ crm_rects = <<>>
    /\ candidates = <<>>
    /\ queue = <<>>
    /\ burned = <<>>
    /\ text = <<>>
    /\ regions = RegionsSource
    /\ bound = PageBound
    /\ calls = <<>>
    /\ output_doc = <<>>
    /\ img = NoImage
    /\ metadata = AllMetadata
    /\ warnings = {}
    /\ result = <<>>
    /\ error = ""

\* the content of a PDF file: its pages as fitz.open will find them
Doc(np, ws, size) == [n_pages |-> np, words |-> ws, page2 |-> size]
DocOne == Doc(1, LaidOut(<<tNome, tAna>>, Pitch, RowY), <<>>)
DocTwo == Doc(2, LaidOut(<<tSexo, tAna, tCRM>>, Pitch, RowY), <<72, 144>>)
DocNone == Doc(0, <<>>, <<>>)

\* the rectangles a strategy queues on page 1 of the document
QueuedOn(doc) ==
    (IF doc.n_pages = 1
     THEN single_page_label_loop(doc.words, labels \cup keep, keep)
     ELSE redact_line_values_after_label(doc.words, labels \cup keep, keep))
        \o redact_crm_and_upper_name(doc.words) \o RegionRects

\* page 2 as anonymize_multi_page_pdf renders and blackens it
Page2Image(doc) ==
    LET image == render_page_to_image(doc.page2, DPI_PAGE2_RENDER)
    IN  [image EXCEPT !.drawn = [k \in 1..Len(page2_coords) |-> PixelRect(page2_coords[k], image)]]

\* anonymize_pdf(pdf_content) as one synchronous call: the bytes it returns
\* or the exception it raises (a document the library reads without error)
anonymize_pdf(doc) ==
    IF doc.n_pages = 0 THEN [ok |-> FALSE, value |-> EmptyDocument]
    ELSE IF doc.n_pages = 1
    THEN [ok |-> TRUE,
          value |-> [pages |-> <<Page("original", 0, apply_redactions(doc.words, QueuedOn(doc)), NoImage)>>,
                     metadata |-> {}]]
    ELSE [ok |-> TRUE,
          value |-> [pages |-> <<Page("copy", 0, apply_redactions(doc.words, QueuedOn(doc)), NoImage),
                                 Page("image", 1, <<>>, Page2Image(doc))>>,
                     metadata |-> {}]]

\* S3 keys: directory, file name and extension
Key(path, stem, ext) == [path |-> path, stem |-> stem, ext |-> ext]
KeyA == Key("in", "a", "pdf")
KeyB == Key("in", "b", "PDF")
KeyC == Key("", "c", "pdf")
KeyX == Key("in", "x", "pdf")
KeyT == Key("in", "t", "txt")

\* the objects of the input bucket; there is no object for KeyX
InputObjects == (KeyA :> DocOne) @@ (KeyB :> DocTwo) @@ (KeyC :> DocNone) @@ (KeyT :> DocOne)

INPUT_BUCKET == "test-input-bucket"
OUTPUT_BUCKET == "test-output-bucket"

\* key.lower().endswith(".pdf")
LowerExt(ext) == CASE ext = "PDF" -> "pdf" [] ext = "Pdf" -> "pdf" [] OTHER -> ext
IsPdfKey(key) == LowerExt(key.ext) = "pdf"

\* the records of an S3 event; the last is not a mapping (record.get raises)
Record(src, bucket, key) == [isdict |-> TRUE, eventSource |-> src, bucket |-> bucket, key |-> key]
RecA == Record("aws:s3", INPUT_BUCKET, KeyA)
RecB == Record("aws:s3", INPUT_BUCKET, KeyB)
RecC == Record("aws:s3", INPUT_BUCKET, KeyC)
RecX == Record("aws:s3", INPUT_BUCKET, KeyX)
RecT == Record("aws:s3", INPUT_BUCKET, KeyT)
RecSqs == Record("aws:sqs", INPUT_BUCKET, KeyA)
RecBad == [isdict |-> FALSE, eventSource |-> "", bucket |-> "", key |-> None]

EventRecords == {RecA, RecB, RecC, RecX, RecT, RecSqs, RecBad}

\* parse_s3_event(event): the (bucket, key) of the S3 records whose key ends in .pdf
parse_s3_event(ev) ==
    LET isPdf(r) == r.eventSource = "aws:s3" /\ r.bucket # "" /\ r.key # None /\ IsPdfKey(r.key)
        sel == SelectSeq(ev, isPdf)
    IN  [k \in 1..Len(sel) |-> [bucket |-> sel[k].bucket, key |-> sel[k].key]]

\* generate_output_key(input_key): anonymized_{ulid}.{ext} in the directory of the input
generate_output_key(input_key, ulid) == Key(input_key.path, <<"anonymized", ulid>>, input_key.ext)

\* a coroutine process_with_semaphore(bucket, key) as gather receives it
NewTask(file) ==
    [pc |-> "waiting", bucket |-> file.bucket, key |-> file.key, pdf_content |-> None,
     anonymized_content |-> None, output_key |-> None, result |-> None]

\* semaphore = asyncio.Semaphore(2)
SemaphoreValue == 2

AllDone == \A k \in 1..Len(tasks) : tasks[k].pc = "done"

\* async_lambda_handler up to asyncio.gather: a record that is no mapping
\* makes parse_s3_event raise (statusCode 500), an event without PDF files
\* is answered at once, otherwise Semaphore(2) and one task per file
LambdaStart ==
    /\ hpc = "start"
    /\ IF \E k \in 1..Len(event) : ~event[k].isdict
       THEN /\ response' = <<[statusCode |-> 500, total_files |-> 0, successful |-> 0,
                              failed |-> 0, results |-> <<>>]>>
            /\ hpc' = "returned"
            /\ UNCHANGED <<pdf_files, tasks, permits>>
       ELSE IF parse_s3_event(event) = <<>>
       THEN /\ response' = <<[statusCode |-> 200, total_files |-> 0, successful |-> 0,
                              failed |-> 0, results |-> <<>>]>>
            /\ pdf_files' = <<>>
            /\ hpc' = "returned"
            /\ UNCHANGED <<tasks, permits>>
       ELSE /\ pdf_files' = parse_s3_event(event)
            /\ tasks' = [k \in 1..Len(parse_s3_event(event)) |-> NewTask(parse_s3_event(event)[k])]
            /\ permits' = SemaphoreValue
            /\ hpc' = "gather"
            /\ UNCHANGED response
    /\ UNCHANGED <<event, store, ulids, listing, settings, run, pdf_keys, pending, handed, returns>>
    /\ UNCHANGED doc_vars

\* async with semaphore: the tasks start in order, so the waiters are served
\* in order; a task enters when the value is positive
Acquire(i) ==
    /\ hpc = "gather"
    /\ tasks[i].pc = "waiting"
    /\ permits > 0
    /\ \A j \in 1..(i - 1) : tasks[j].pc # "waiting"
    /\ tasks' = [tasks EXCEPT ![i].pc = "download"]
    /\ permits' = permits - 1
    /\ UNCHANGED <<hpc, event, pdf_files, store, ulids, response,
                   listing, settings, run, pdf_keys, pending, handed, returns>>
    /\ UNCHANGED doc_vars

\* except Exception as e: return {"status": "error", ...}; the semaphore is
\* released when the async with block is left
ErrorResult(i, e) ==
    [tasks EXCEPT ![i].pc = "done",
                  ![i].result = [status |-> "error", input_key |-> tasks[i].key, error |-> e]]

\* a download into one buffer that every coroutine reads
DownloadShared(i) ==
    /\ hpc = "gather"
    /\ tasks[i].pc = "download"
    /\ \/ /\ tasks[i].key \in DOMAIN InputObjects
          /\ tasks' = [k \in 1..Len(tasks) |->
                          IF k = i THEN [tasks[k] EXCEPT !.pc = "anonymize",
                                                         !.pdf_content = InputObjects[tasks[i].key]]
                          ELSE IF tasks[k].pc = "anonymize"
                          THEN [tasks[k] EXCEPT !.pdf_content = InputObjects[tasks[i].key]]
                          ELSE tasks[k]]
          /\ UNCHANGED permits
       \/ /\ tasks' = ErrorResult(i, "download")
          /\ permits' = permits + 1
    /\ UNCHANGED <<hpc, event, pdf_files, store, ulids, response,
                   listing, settings, run, pdf_keys, pending, handed, returns>>
    /\ UNCHANGED doc_vars

\* pdf_content = await download_pdf(input_bucket, input_key)
Download(i) ==
    /\ hpc = "gather"
    /\ tasks[i].pc = "download"
    /\ \/ /\ tasks[i].key \in DOMAIN InputObjects
          /\ tasks' = [tasks EXCEPT ![i].pc = "anonymize",
                                    ![i].pdf_content = InputObjects[tasks[i].key]]
          /\ UNCHANGED permits
       \/ /\ tasks' = ErrorResult(i, "download")
          /\ permits' = permits + 1
    /\ UNCHANGED <<hpc, event, pdf_files, store, ulids, response,
                   listing, settings, run, pdf_keys, pending, handed, returns>>
    /\ UNCHANGED doc_vars

\* the argument of anonymize_pdf(pdf_content): the local of this coroutine
ContentRead(i) == tasks[i].pdf_content

\* anonymized_content = anonymize_pdf(pdf_content);
\* output_key = generate_output_key(input_key)
Anonymize(i) ==
    /\ hpc = "gather"
    /\ tasks[i].pc = "anonymize"
    /\ IF anonymize_pdf(ContentRead(i)).ok
       THEN /\ tasks' = [tasks EXCEPT ![i].pc = "upload",
                                      ![i].anonymized_content = anonymize_pdf(ContentRead(i)).value,
                                      ![i].output_key = generate_output_key(tasks[i].key, ulids + 1)]
            /\ ulids' = ulids + 1
            /\ UNCHANGED permits
       ELSE /\ tasks' = ErrorResult(i, anonymize_pdf(ContentRead(i)).value)
            /\ permits' = permits + 1
            /\ UNCHANGED ulids
    /\ UNCHANGED <<hpc, event, pdf_files, store, response,
                   listing, settings, run, pdf_keys, pending, handed, returns>>
    /\ UNCHANGED doc_vars

\* an upload of the content as it was downloaded
UploadBodyOriginal(i) == tasks[i].pdf_content

\* the Body of put_object: upload_pdf(OUTPUT_BUCKET, output_key, anonymized_content, metadata)
UploadBody(i) == tasks[i].anonymized_content

\* await upload_pdf(...): the object is stored and the success dict returned,
\* or put_object raises
Upload(i) ==
    /\ hpc = "gather"
    /\ tasks[i].pc = "upload"
    /\ \/ /\ store' = Append(store, [bucket |-> OUTPUT_BUCKET, key |-> tasks[i].output_key,
                                     body |-> UploadBody(i), original_key |-> tasks[i].key])
          /\ tasks' = [tasks EXCEPT ![i].pc = "done",
                          ![i].result = [status |-> "success", input_key |-> tasks[i].key,
                                         output_key |-> tasks[i].output_key]]
       \/ /\ tasks' = ErrorResult(i, "upload")
          /\ UNCHANGED store
    /\ permits' = permits + 1
    /\ UNCHANGED <<hpc, event, pdf_files, ulids, response,
                   listing, settings, run, pdf_keys, pending, handed, returns>>
    /\ UNCHANGED doc_vars

CountStatus(s) == Cardinality({k \in 1..Len(tasks) : tasks[k].result.status = s})

\* a status code that does not look at the failures
StatusCodeOk(failed) == 200

\* "statusCode": 200 if failed == 0 else 207
StatusCode(failed) == IF failed = 0 THEN 200 ELSE 207

\* gather has every result: count them and return the summary (every
\* result is a dict, process_pdf_file catches what its steps raise)
LambdaReturn ==
    /\ hpc = "gather"
    /\ AllDone
    /\ response' = <<[statusCode |-> StatusCode(Len(tasks) - CountStatus("success")),
                      total_files |-> Len(pdf_files),
                      successful |-> CountStatus("success"),
                      failed |-> Len(tasks) - CountStatus("success"),
                      results |-> [k \in 1..Len(tasks) |-> tasks[k].result]]>>
    /\ hpc' = "returned"
    /\ UNCHANGED <<tasks, permits, event, pdf_files, store, ulids,
                   listing, settings, run, pdf_keys, pending, handed, returns>>
    /\ UNCHANGED doc_vars

MaxRecords == 3         \* records of an S3 event

NextLambda ==
    \/ LambdaStart
    \/ \E i \in 1..MaxRecords : i <= Len(tasks) /\ Acquire(i)
    \/ \E i \in 1..MaxRecords : i <= Len(tasks) /\ Download(i)
    \/ \E i \in 1..MaxRecords : i <= Len(tasks) /\ Anonymize(i)
    \/ \E i \in 1..MaxRecords : i <= Len(tasks) /\ Upload(i)
    \/ LambdaReturn

InitLambda ==
    \E ev \in SeqsUpTo(EventRecords, MaxRecords) :
        /\ NoDocument
        /\ hpc = "start"
        /\ tasks = <<>>
        /\ permits = 0
        /\ event = ev
        /\ pdf_files = <<>>
        /\ store = <<>>
        /\ ulids = 0
        /\ response = <<>>
        /\ listing = <<>>
        /\ settings = <<>>
        /\ run = <<>>
        /\ pdf_keys = <<>>
        /\ pending = <<>>
        /\ handed = <<>>
        /\ returns = <<>>

SpecLambda == InitLambda /\ [][NextLambda]_vars

----------------------------------------------------------------------------
(* The Lambda handler: properties *)

\* what anonymize_pdf returns for the object of key k when called on it alone
Alone(k) == anonymize_pdf(InputObjects[k]).value

\* C21: whatever the interleaving of the tasks, the content a task holds is
\* its own file's, the bytes it gets from anonymize_pdf and the bytes stored
\* for it are those anonymize_pdf returns for that file alone, and the step
\* that anonymizes one file changes no other task.
C21_Independent ==
    /\ [](/\ \A i \in 1..Len(tasks) :
               /\ tasks[i].pdf_content # None =>
                     tasks[i].pdf_content = InputObjects[tasks[i].key]
               /\ tasks[i].anonymized_content # None =>
                     tasks[i].anonymized_content = Alone(tasks[i].key)
          /\ \A s \in 1..Len(store) : store[s].body = Alone(store[s].original_key))
    /\ [][\A i \in 1..Len(tasks) :
             (tasks[i].pc = "anonymize" /\ tasks'[i].pc # "anonymize") =>
                 \A j \in 1..Len(tasks) : j # i => tasks'[j] = tasks[j]]_vars

\* two files of different content are in flight together, one anonymized
\* and the other downloaded and about to be
C21_Witness ==
    \E i, j \in 1..Len(tasks) :
        /\ tasks[i].anonymized_content # None
        /\ tasks[j].pc = "anonymize"
        /\ tasks[i].key # tasks[j].key
        /\ tasks[i].pdf_content # tasks[j].pdf_content

\* the stored objects that carry the output key of task i
StoredFor(i) == {s \in 1..Len(store) : store[s].key = tasks[i].output_key}

\* C22: an object is put into the output bucket only by a task for which
\* anonymize_pdf has returned, its body is what anonymize_pdf returned for
\* that task's file and never the downloaded content, and a task whose
\* download, anonymization or upload failed has no object stored.
C22_OnlyAnonymizedLeaves ==
    /\ [](/\ \A s \in 1..Len(store) :
               /\ store[s].bucket = OUTPUT_BUCKET
               /\ \E i \in 1..Len(tasks) :
                     /\ s \in StoredFor(i)
                     /\ tasks[i].result # None /\ tasks[i].result.status = "success"
                     /\ anonymize_pdf(InputObjects[tasks[i].key]).ok
                     /\ store[s].body = anonymize_pdf(InputObjects[tasks[i].key]).value
                     /\ store[s].body = tasks[i].anonymized_content
                     /\ store[s].body # tasks[i].pdf_content
          /\ \A i \in 1..Len(tasks) :
               /\ Cardinality(StoredFor(i)) <= 1
               /\ (tasks[i].result # None /\ tasks[i].result.status = "error") => StoredFor(i) = {}
               /\ tasks[i].anonymized_content = None => StoredFor(i) = {})
    /\ [][store' # store =>
             \E i \in 1..Len(tasks) :
                 /\ tasks[i].pc = "upload"
                 /\ tasks[i].anonymized_content # None
                 /\ Len(store') = Len(store) + 1
                 /\ store'[Len(store')].body = tasks[i].anonymized_content]_vars

\* an event of three files: one is stored anonymized, the download of one
\* failed and anonymize_pdf refused one
C22_Witness ==
    /\ Len(store) = 1
    /\ \E i, j, k \in 1..Len(tasks) :
          /\ StoredFor(i) # {}
          /\ tasks[j].result # None /\ tasks[j].result.status = "error"
          /\ tasks[j].result.error = "download"
          /\ tasks[k].result # None /\ tasks[k].result.status = "error"
          /\ tasks[k].result.error = EmptyDocument

\* the event is one S3 delivers (every record a mapping) with a PDF record
PdfEvent == (\A k \in 1..Len(event) : event[k].isdict) /\ Len(parse_s3_event(event)) >= 1

\* C23: for an event with n >= 1 PDF records the handler goes on whatever
\* fails for a file (while gather runs some task can always take a step) and
\* returns one result per file, in order, with successful + failed = n,
\* statusCode 200 iff failed = 0 and 207 otherwise.
C23_FailureIsolated ==
    PdfEvent =>
        /\ hpc = "gather" => ENABLED NextLambda
        /\ hpc = "returned" =>
              LET r == response[1]
                  n == Len(parse_s3_event(event))
              IN  /\ Len(tasks) = n /\ AllDone
                  /\ Len(r.results) = n
                  /\ \A k \in 1..n : r.results[k].input_key = parse_s3_event(event)[k].key
                  /\ r.total_files = n
                  /\ r.successful = Cardinality({k \in 1..n : r.results[k].status = "success"})
                  /\ r.failed = Cardinality({k \in 1..n : r.results[k].status = "error"})
                  /\ r.successful + r.failed = n
                  /\ r.statusCode = 200 <=> r.failed = 0
                  /\ r.statusCode = 207 <=> r.failed > 0

\* three files, of which the first failed and a later one succeeded: 207
C23_Witness ==
    /\ PdfEvent
    /\ hpc = "returned"
    /\ Len(tasks) = 3
    /\ response[1].results[1].status = "error"
    /\ response[1].successful >= 1
    /\ response[1].statusCode = 207

----------------------------------------------------------------------------
(* The batch handler of main.py: run_batch and the chain of invocations *)

MaxKeys == 4            \* keys under the prefix
MaxBatchSize == 2       \* BATCH_SIZE read from the environment
MaxConcurrency == 2     \* CONCURRENCY read from the environment
ListPageSize == 2       \* keys on one page of the list_objects_v2 paginator

\* the name in AWS_LAMBDA_FUNCTION_NAME
FunctionName == "bp-ecg-etl"

\* the keys are numbered in listing order, key k being the k-th of the
\* listing; start_after = 0 stands for the empty string, before every key
NoKey == 0

\* the keys of page p of the listing that follows start_after
PageKeys(start_after, p) ==
    LET first == start_after + (p - 1) * ListPageSize + 1
        last == IF first + ListPageSize - 1 > Len(listing) THEN Len(listing)
                ELSE first + ListPageSize - 1
    IN  [k \in 1..(last - first + 1) |-> first + k - 1]

\* list_pdf_keys: pdf_keys = [obj['Key'] for obj in page['Contents']
\* if obj['Key'].lower().endswith('.pdf')]
PagePdfKeys(start_after, p) ==
    LET isPdf(k) == listing[k] IN SelectSeq(PageKeys(start_after, p), isPdf)

\* async for key_batch in list_pdf_keys(...): pdf_keys.extend(key_batch);
\* if len(pdf_keys) >= settings.BATCH_SIZE: break  (a page without PDF keys
\* is not yielded)
RECURSIVE CollectKeys(_, _, _)
CollectKeys(start_after, p, acc) ==
    IF start_after + (p - 1) * ListPageSize >= Len(listing) THEN acc
    ELSE IF PagePdfKeys(start_after, p) = <<>> THEN CollectKeys(start_after, p + 1, acc)
    ELSE IF Len(acc \o PagePdfKeys(start_after, p)) >= settings.BATCH_SIZE
         THEN acc \o PagePdfKeys(start_after, p)
         ELSE CollectKeys(start_after, p + 1, acc \o PagePdfKeys(start_after, p))

\* BatchResult(...).to_dict()
BatchResult(batch_id, processed, success, errors, status) ==
    [batch_id |-> batch_id, processed |-> processed, success |-> success,
     errors |-> errors, status |-> status]

\* the result of the except block of run_batch
ErrorBatch == BatchResult(run.batch_id, 0, 0, 1, "error")

\* run_batch did not return: get_settings() raised before the try block
RaisedBatch == BatchResult(run.batch_id, 0, 0, 0, "raised")

\* run_batch up to asyncio.gather: the settings are loaded (outside the try
\* block), the keys listed and cut to BATCH_SIZE, the semaphore and one task
\* per key made; listing may raise, which the except block turns into the
\* error result
BatchStart ==
    /\ hpc = "invoked"
    /\ \/ /\ ~settings.loadable
          /\ returns' = Append(returns, RaisedBatch)
          /\ hpc' = "returned"
          /\ UNCHANGED <<tasks, permits, pdf_keys, handed>>
       \/ /\ settings.loadable
          /\ returns' = Append(returns, ErrorBatch)
          /\ hpc' = "returned"
          /\ UNCHANGED <<tasks, permits, pdf_keys, handed>>
       \/ /\ settings.loadable
          /\ CollectKeys(run.start_after, 1, <<>>) = <<>>
          /\ returns' = Append(returns, BatchResult(run.batch_id, 0, 0, 0, "done"))
          /\ hpc' = "returned"
          /\ UNCHANGED <<tasks, permits, pdf_keys, handed>>
       \/ /\ settings.loadable
          /\ CollectKeys(run.start_after, 1, <<>>) # <<>>
          /\ LET keys == Slice(CollectKeys(run.start_after, 1, <<>>), 0, settings.BATCH_SIZE)
             IN  /\ pdf_keys' = keys
                 /\ tasks' = [k \in 1..Len(keys) |-> [pc |-> "waiting", key |-> keys[k], result |-> None]]
                 /\ handed' = handed \o [k \in 1..Len(keys) |-> [batch_id |-> run.batch_id, key |-> keys[k]]]
          /\ permits' = settings.CONCURRENCY
          /\ hpc' = "processing"
          /\ UNCHANGED returns
    /\ UNCHANGED <<event, pdf_files, store, ulids, response, listing, settings, run, pending>>
    /\ UNCHANGED doc_vars

\* an entry that does not look at the value of the semaphore
BatchAcquireUnguarded(i) ==
    /\ hpc = "processing"
    /\ tasks[i].pc = "waiting"
    /\ tasks' = [tasks EXCEPT ![i].pc = "running"]
    /\ permits' = permits - 1
    /\ UNCHANGED <<hpc, event, pdf_files, store, ulids, response,
                   listing, settings, run, pdf_keys, pending, handed, returns>>
    /\ UNCHANGED doc_vars

\* async with semaphore (run_batch): the waiters are served in order
BatchAcquire(i) ==
    /\ hpc = "processing"
    /\ tasks[i].pc = "waiting"
    /\ permits > 0
    /\ \A j \in 1..(i - 1) : tasks[j].pc # "waiting"
    /\ tasks' = [tasks EXCEPT ![i].pc = "running"]
    /\ permits' = permits - 1
    /\ UNCHANGED <<hpc, event, pdf_files, store, ulids, response,
                   listing, settings, run, pdf_keys, pending, handed, returns>>
    /\ UNCHANGED doc_vars

\* what a task of run_batch can end with: a ProcessingResult of status
\* SUCCESS, one of status ERROR (the download failed), or an exception
Outcomes == {"success", "error", "raised"}

\* return await process_single_pdf(...): the semaphore is released when the
\* async with block is left
Process(i) ==
    /\ hpc = "processing"
    /\ tasks[i].pc = "running"
    /\ \E o \in Outcomes : tasks' = [tasks EXCEPT ![i].pc = "done", ![i].result = o]
    /\ permits' = permits + 1
    /\ UNCHANGED <<hpc, event, pdf_files, store, ulids, response,
                   listing, settings, run, pdf_keys, pending, handed, returns>>
    /\ UNCHANGED doc_vars

CountResults(S) == Cardinality({k \in 1..Len(tasks) : tasks[k].result \in S})

\* success_count and error_count of the loop over results
success_count == CountResults({"success"})
\* a count of errors that leaves out the tasks that raised
error_countResultsOnly == CountResults({"error"})

error_count == CountResults({"raised"}) + CountResults({"error"})

\* after gather: the results are counted and, if valid_results is not empty,
\* written as a parquet file to DEST_BUCKET; df.write_parquet() or
\* put_object may raise, which the except block turns into the error result
SaveResults ==
    /\ hpc = "processing"
    /\ AllDone
    /\ IF CountResults({"success", "error"}) > 0
       THEN \/ /\ store' = Append(store, [bucket |-> "dest", key |-> <<"results", run.batch_id>>,
                                          body |-> CountResults({"success", "error"}),
                                          original_key |-> None])
               /\ hpc' = "chain"
               /\ UNCHANGED returns
            \/ /\ returns' = Append(returns, ErrorBatch)
               /\ hpc' = "returned"
               /\ UNCHANGED store
       ELSE /\ hpc' = "chain"
            /\ UNCHANGED <<store, returns>>
    /\ UNCHANGED <<tasks, permits, event, pdf_files, ulids, response,
                   listing, settings, run, pdf_keys, pending, handed>>
    /\ UNCHANGED doc_vars

\* if len(pdf_keys) == settings.BATCH_SIZE: last_key = pdf_keys[-1];
\* await _invoke_next_batch(last_key, batch_id + 1): nothing is invoked
\* without a function name, and an exception of the invocation is logged
\* and dropped; pdf_keys[-1] of an empty list raises (error result)
InvokeNextBatch ==
    /\ hpc = "chain"
    /\ Len(pdf_keys) = settings.BATCH_SIZE
    /\ IF pdf_keys = <<>>
       THEN /\ returns' = Append(returns, ErrorBatch)
            /\ hpc' = "returned"
            /\ UNCHANGED pending
       ELSE /\ \/ /\ settings.LAMBDA_NAME # ""
                  /\ pending' = Append(pending, [start_after |-> pdf_keys[Len(pdf_keys)],
                                                 batch_id |-> run.batch_id + 1])
               \/ UNCHANGED pending
            /\ hpc' = "return"
            /\ UNCHANGED returns
    /\ UNCHANGED <<tasks, permits, event, pdf_files, store, ulids, response,
                   listing, settings, run, pdf_keys, handed>>
    /\ UNCHANGED doc_vars

\* batch_result = BatchResult(processed=len(pdf_keys), success=success_count,
\* errors=error_count, status=SUCCESS); return batch_result.to_dict()
BatchReturn ==
    /\ \/ hpc = "chain" /\ Len(pdf_keys) # settings.BATCH_SIZE
       \/ hpc = "return"
    /\ returns' = Append(returns, BatchResult(run.batch_id, Len(pdf_keys), success_count,
                                              error_count, "success"))
    /\ hpc' = "returned"
    /\ UNCHANGED <<tasks, permits, event, pdf_files, store, ulids, response,
                   listing, settings, run, pdf_keys, pending, handed>>
    /\ UNCHANGED doc_vars

\* lambda_handler started by an invocation of _invoke_next_batch:
\* start_after = event.get("start_after"); batch_id = event.get("batch_id", 0);
\* asyncio.run(run_batch(start_after, batch_id))
LambdaInvoked ==
    /\ hpc = "returned"
    /\ pending # <<>>
    /\ run' = Head(pending)
    /\ pending' = Tail(pending)
    /\ tasks' = <<>>
    /\ permits' = 0
    /\ pdf_keys' = <<>>
    /\ hpc' = "invoked"
    /\ UNCHANGED <<event, pdf_files, store, ulids, response, listing, settings, handed, returns>>
    /\ UNCHANGED doc_vars

NextBatch ==
    \/ BatchStart
    \/ \E i \in 1..MaxBatchSize : i <= Len(tasks) /\ BatchAcquire(i)
    \/ \E i \in 1..MaxBatchSize : i <= Len(tasks) /\ Process(i)
    \/ SaveResults
    \/ InvokeNextBatch
    \/ BatchReturn
    \/ LambdaInvoked

\* what get_settings() finds: BATCH_SIZE and CONCURRENCY as integers, the
\* function name set or not; or a BATCH_SIZE that int() refuses
Loaded(b, c, name) == [loadable |-> TRUE, BATCH_SIZE |-> b, CONCURRENCY |-> c, LAMBDA_NAME |-> name]
Unloadable == [loadable |-> FALSE, BATCH_SIZE |-> 0, CONCURRENCY |-> 0, LAMBDA_NAME |-> ""]

SettingsSet ==
    {Loaded(b, c, name) : b \in 0..MaxBatchSize, c \in 0..MaxConcurrency, name \in {"", FunctionName}}
        \cup {Unloadable}

\* the first invocation: lambda_handler with an event without start_after
InitBatch ==
    \E ls \in SeqsUpTo(BOOLEAN, MaxKeys), st \in SettingsSet :
        /\ NoDocument
        /\ hpc = "invoked"
        /\ tasks = <<>>
        /\ permits = 0
        /\ event = <<>>
        /\ pdf_files = <<>>
        /\ store = <<>>
        /\ ulids = 0
        /\ response = <<>>
        /\ listing = ls
        /\ settings = st
        /\ run = [start_after |-> NoKey, batch_id |-> 0]
        /\ pdf_keys = <<>>
        /\ pending = <<>>
        /\ handed = <<>>
        /\ returns = <<>>

SpecBatch == InitBatch /\ [][NextBatch]_vars

----------------------------------------------------------------------------
(* Admission under the semaphores of the two handlers *)

\* the two handlers side by side
NextAdmission == NextLambda \/ NextBatch

\* the event loop runs a coroutine that is ready, and an awaited call to S3
\* returns or raises: some enabled step is eventually taken
SpecAdmission ==
    /\ InitLambda \/ InitBatch
    /\ [][NextAdmission]_vars
    /\ WF_vars(NextAdmission)

\* the tasks inside their async with block
InFlight == Cardinality({k \in 1..Len(tasks) : tasks[k].pc \notin {"waiting", "done"}})

Gathering == hpc \in {"gather", "processing"}

\* the value the semaphore of the running handler was made with
Limit == IF hpc = "gather" THEN SemaphoreValue ELSE settings.CONCURRENCY

Waiting(i) == Gathering /\ i <= Len(tasks) /\ tasks[i].pc = "waiting"
Entered(i) == i <= Len(tasks) /\ tasks[i].pc # "waiting"
Done(i) == i <= Len(tasks) /\ tasks[i].pc = "done"

\* never more tasks inside than the limit, and the value of the semaphore
\* is the limit less the tasks inside
Bounded == Gathering => InFlight <= Limit /\ permits + InFlight = Limit

\* a task that ends, with a result or an error, gives its permit back
Released ==
    \A i \in 1..Len(tasks) :
        (Gathering /\ tasks[i].pc \notin {"waiting", "done"}
            /\ Len(tasks') = Len(tasks) /\ tasks'[i].pc = "done")
        => permits' = permits + 1

\* C24: at most 2 process_pdf_file executions (async_lambda_handler) and at
\* most CONCURRENCY process_single_pdf executions (run_batch) are inside the
\* semaphore at any moment; a task that ends gives its permit back whether
\* it succeeded or failed; and, when the limit is at least 1, every file
\* submitted eventually enters the semaphore and is processed.
C24_BoundedAdmission ==
    /\ []Bounded
    /\ [][Released]_vars
    /\ \A i \in 1..MaxRecords : (Waiting(i) /\ Limit >= 1) ~> Entered(i)
    /\ \A i \in 1..MaxRecords : (Waiting(i) /\ Limit >= 1) ~> Done(i)

\* C24 as stated: every file submitted is eventually processed, whatever
\* the value of CONCURRENCY
C24_AsStated ==
    /\ []Bounded
    /\ [][Released]_vars
    /\ \A i \in 1..MaxRecords : Waiting(i) ~> Done(i)

\* run_batch with CONCURRENCY = 1 and two keys: the first task failed and
\* gave its permit back, the second is inside and holds the only permit
C24_Witness ==
    /\ hpc = "processing"
    /\ settings.CONCURRENCY = 1
    /\ Len(tasks) = 2
    /\ tasks[1].pc = "done"
    /\ tasks[1].result = "raised"
    /\ tasks[2].pc = "running"
    /\ permits = 0

----------------------------------------------------------------------------
(* The chain of batches *)

\* the PDF keys of the bucket, in listing order
AllPdfKeys == {k \in 1..Len(listing) : listing[k]}

\* how often key k was handed to processing, over all batches
TimesHanded(k) == Cardinality({h \in 1..Len(handed) : handed[h].key = k})

\* the keys of batch b, in the order they were handed
KeysOfBatch(b) ==
    LET of(h) == h.batch_id = b IN SelectSeq(handed, of)

\* no invocation is waiting and no run_batch is running
ChainEnded == hpc = "returned" /\ pending = <<>>

\* the keys are handed in listing order, each at most once, and at most
\* BATCH_SIZE of them in one batch
HandedInOrder ==
    /\ \A h \in 1..Len(handed) : handed[h].key \in AllPdfKeys
    /\ \A g, h \in 1..Len(handed) : g < h => handed[g].key < handed[h].key
    /\ \A b \in 0..MaxKeys : Len(KeysOfBatch(b)) <= settings.BATCH_SIZE

\* C29: with a Lambda name configured and the bucket unchanged, the batches
\* take the keys in listing order, at most BATCH_SIZE each, and when the
\* chain has ended every PDF key under the prefix has been handed to
\* processing by exactly one batch and the last batch found fewer than
\* BATCH_SIZE keys.
C29_EveryKeyOnce ==
    (settings.loadable /\ settings.LAMBDA_NAME # "") =>
        /\ HandedInOrder
        /\ ChainEnded =>
              /\ \A k \in AllPdfKeys : TimesHanded(k) = 1
              /\ returns[Len(returns)].status \in {"success", "done"}
              /\ returns[Len(returns)].processed < settings.BATCH_SIZE

----------------------------------------------------------------------------
(* The counters of a batch result *)

\* the counters of every result returned so far agree with the keys handed
\* to processing in its batch
CountersAgree ==
    \A n \in 1..Len(returns) :
        /\ returns[n].status = "success" =>
              /\ returns[n].processed = Len(KeysOfBatch(returns[n].batch_id))
              /\ returns[n].success + returns[n].errors = returns[n].processed
        /\ returns[n].status = "error" =>
              /\ returns[n].processed = 0
              /\ returns[n].success = 0
              /\ returns[n].errors = 1

\* the result just returned counts each task once: a ProcessingResult of
\* status SUCCESS as a success, one of status ERROR and an exception as an
\* error each
LastCounts ==
    (hpc = "returned" /\ returns[Len(returns)].status = "success") =>
        /\ returns[Len(returns)].processed = Len(tasks)
        /\ returns[Len(returns)].success = CountResults({"success"})
        /\ returns[Len(returns)].errors = CountResults({"error"}) + CountResults({"raised"})

\* C30: a result of status "success" has processed = the keys handed to
\* processing and success + errors = processed, a task that raised and a
\* result of status ERROR counting one error each; a batch that fails as a
\* whole reports processed = 0, success = 0, errors = 1, status "error";
\* and run_batch raises only when get_settings() raises, before the try
\* block is entered.
C30_CountersConsistent ==
    /\ CountersAgree
    /\ LastCounts
    /\ \A n \in 1..Len(returns) : returns[n].status = "raised" => ~settings.loadable

\* C30 as stated: run_batch never raises
C30_AsStated ==
    /\ CountersAgree
    /\ LastCounts
    /\ \A n \in 1..Len(returns) : returns[n].status # "raised"

\* a batch of two keys returned "success": one task raised, the other gave
\* a result of status SUCCESS
C30_Witness ==
    /\ hpc = "returned"
    /\ Len(tasks) = 2
    /\ tasks[1].result = "raised"
    /\ tasks[2].result = "success"
    /\ returns[Len(returns)] = BatchResult(run.batch_id, 2, 1, 1, "success")

====
